---------------------------- MODULE Spec2Model ----------------------------
(***************************************************************************)
(* Differential-transform (DT) compiler of Solverz, src/Solverz/sas/       *)
(* sas_alg.py.  Expression trees are tuples whose first element is the     *)
(* class name of the node:                                                 *)
(*   <<"Number", n, d>>        rational n/d (d > 0; d = 0 is "undefined")  *)
(*   <<"Symbol", name>>        a variable; the name "t" is time            *)
(*   <<"Constant", name>>      Constant(symbol)                            *)
(*   <<"phi", u>>, <<"psi", u>> the symbols standing for sin(u), cos(u)    *)
(*   <<"Add", args>>, <<"Mul", args>>, <<"sin", u>>, <<"cos", u>>          *)
(*   <<"Pow", base, exp>>, <<"Derivative", e, var, count>>                 *)
(*   <<"Function", name, e>>   any other function node                     *)
(*   <<"DT", symbol, key>>     DT(symbol, index)                           *)
(*   <<"dDelta", key>>, <<"dLinspace", key, key>>                          *)
(*   <<"dConv_s", args>>, <<"dConv_v", args>>, <<"dPow", key, base, exp>>  *)
(*   <<"Order", key>>          an order expression used as a scalar        *)
(*   <<"Inv", e>>              e ** -1                                     *)
(*   <<"Matrix", rows>>        a column of probe rows                      *)
(*   <<"raise", kind>>         the call raised the exception kind          *)
(* Order keys:                                                             *)
(*   <<"int", n>>              a concrete order                            *)
(*   <<"idx", c>>              the Index expression k + c                  *)
(*   <<"Slice", start, end>>   Slice(start, end), bounds int or idx keys   *)
(***************************************************************************)
EXTENDS Integers, Sequences, FiniteSets, TLC

VARIABLES op, arg, ret, hist, ic

vars == <<op, arg, ret, hist, ic>>

(***************************************************************************)
(* Every call of one of the functions below passes through Call, the one   *)
(* recursive definition of the module; FBody is the definition of F.       *)
(***************************************************************************)
RECURSIVE Call(_, _)
MkAdd(args) == Call("MkAdd", <<args>>)
MkMul(args) == Call("MkMul", <<args>>)
MkInv(e) == Call("MkInv", <<e>>)
Subs(e, m) == Call("Subs", <<e, m>>)
_dtify(Node, k) == Call("_dtify", <<Node, k>>)
expand(e) == Call("expand", <<e>>)
extract_unknown_term(expr, k) == Call("extract_unknown_term", <<expr, k>>)
dtify(expr0, k, etf, eut, constants) == Call("dtify", <<expr0, k, etf, eut, constants>>)
Eval(e, kv, cf) == Call("Eval", <<e, kv, cf>>)
TrigRules(n, cf) == Call("TrigRules", <<n, cf>>)
pre_lambdify(expr) == Call("pre_lambdify", <<expr>>)

(***************************************************************************)
(* Rational numbers: pairs <<n, d>> in lowest terms.                       *)
(***************************************************************************)
Abs(n) == IF n < 0 THEN -n ELSE n

RECURSIVE Gcd(_, _)
Gcd(a, b) == IF b = 0 THEN a ELSE Gcd(b, a % b)

RNorm(n, d) ==
  IF d = 0 THEN <<0, 0>>
  ELSE LET g == Gcd(Abs(n), Abs(d))
           s == IF d < 0 THEN -1 ELSE 1
       IN <<(s * n) \div g, (s * d) \div g>>

RInt(n) == <<n, 1>>
RAdd(a, b) == RNorm(a[1] * b[2] + b[1] * a[2], a[2] * b[2])
RMul(a, b) == RNorm(a[1] * b[1], a[2] * b[2])
RNeg(a) == <<-a[1], a[2]>>
RInv(a) == IF a[1] = 0 THEN <<0, 0>> ELSE RNorm(a[2], a[1])

(***************************************************************************)
(* Node constructors and tests.                                            *)
(***************************************************************************)
Num(n) == <<"Number", n, 1>>
Rat(r) == <<"Number", r[1], r[2]>>
Sym(name) == <<"Symbol", name>>
Const(name) == <<"Constant", name>>
Raise(kind) == <<"raise", kind>>
Tag(e) == Head(e)
IsRaise(e) == Tag(e) = "raise"
IsNum(e) == Tag(e) = "Number"
NumVal(e) == <<e[2], e[3]>>
IsZero(e) == IsNum(e) /\ e[2] = 0 /\ e[3] # 0

KInt(n) == <<"int", n>>
KIdx(c) == <<"idx", c>>
KPy(n) == <<"pyint", n>>
\* n + c for a plain Symbol n, which is not an Index
KSym(c) == <<"sym", c>>
IsPy(k) == Tag(k) = "pyint"
IsInt(k) == Tag(k) \in {"int", "pyint"}
IsIdx(k) == Tag(k) = "idx"
IsSlice(k) == Tag(k) = "Slice"

\* the first raised exception among the elements of a sequence, if any
RECURSIVE FirstRaise(_, _)
FirstRaise(s, i) ==
  IF i > Len(s) THEN <<"none">>
  ELSE IF IsRaise(s[i]) THEN s[i] ELSE FirstRaise(s, i + 1)

AnyRaise(s) == \E i \in 1..Len(s) : IsRaise(s[i])

RECURSIVE Concat(_, _)
Concat(ss, i) == IF i > Len(ss) THEN <<>> ELSE ss[i] \o Concat(ss, i + 1)

(***************************************************************************)
(* The expression-tree substrate (sympy): traversal, and the automatic     *)
(* canonical forms of Add and Mul that the rule set relies on.             *)
(***************************************************************************)
Children(e) ==
  CASE Tag(e) \in {"Add", "Mul", "dConv_s", "dConv_v", "Matrix"} -> e[2]
    [] Tag(e) \in {"sin", "cos", "Inv"} -> <<e[2]>>
    [] Tag(e) = "Pow" -> <<e[2], e[3]>>
    [] Tag(e) = "Derivative" -> <<e[2]>>
    [] Tag(e) = "Function" -> <<e[3]>>
    [] Tag(e) = "dPow" -> <<e[3], e[4]>>
    [] OTHER -> <<>>

\* expr.has(cls): some node of the tree is an instance of one of the classes
RECURSIVE Has(_, _)
Has(e, tags) ==
  \/ Tag(e) \in tags
  \/ \E i \in 1..Len(Children(e)) : Has(Children(e)[i], tags)

\* is_commutative: the convolution and linspace nodes are declared
\* non-commutative, every symbol the rules create is commutative
IsCommutative(e) == ~Has(e, {"dConv_s", "dConv_v", "dLinspace"})

\* the free symbols of a tree, as a set (phi/psi are atoms: their argument
\* is a back-reference, not a subtree)
RECURSIVE FreeSymbols(_)
FreeSymbols(e) ==
  IF Tag(e) \in {"Symbol", "Constant", "phi", "psi", "DT"} THEN {e}
  ELSE UNION {FreeSymbols(Children(e)[i]) : i \in 1..Len(Children(e))}

\* does an order key mention the Index variable
KeyHasIndex(k) ==
  \/ IsIdx(k)
  \/ IsSlice(k) /\ (IsIdx(k[2]) \/ IsIdx(k[3]))

\* do the free symbols of a scalar expression include an Index
RECURSIVE HasIndex(_)
HasIndex(e) ==
  \/ Tag(e) = "Order" /\ KeyHasIndex(e[2])
  \/ Tag(e) = "dDelta" /\ KeyHasIndex(e[2])
  \/ Tag(e) = "dLinspace" /\ (KeyHasIndex(e[2]) \/ KeyHasIndex(e[3]))
  \/ \E i \in 1..Len(Children(e)) : HasIndex(Children(e)[i])

\* Mul.make_args / Add.make_args
MulArgs(e) == IF Tag(e) = "Mul" THEN e[2] ELSE <<e>>
AddArgs(e) == IF Tag(e) = "Add" THEN e[2] ELSE <<e>>

\* as_coeff_Mul: the leading Number of a product and the rest
CoeffOf(e) ==
  IF IsNum(e) THEN NumVal(e)
  ELSE IF Tag(e) = "Mul" /\ IsNum(e[2][1]) THEN NumVal(e[2][1]) ELSE RInt(1)
CoreOf(e) ==
  IF IsNum(e) THEN <<>>
  ELSE IF Tag(e) = "Mul" /\ IsNum(e[2][1]) THEN Tail(e[2]) ELSE MulArgs(e)

RECURSIVE RProd(_, _)
RProd(s, i) == IF i > Len(s) THEN RInt(1) ELSE RMul(NumVal(s[i]), RProd(s, i + 1))

\* remove the first element equal to x
RECURSIVE RemoveFirst(_, _)
RemoveFirst(s, x) ==
  IF s = <<>> THEN <<>>
  ELSE IF Head(s) = x THEN Tail(s) ELSE <<Head(s)>> \o RemoveFirst(Tail(s), x)

InSeq(s, x) == \E i \in 1..Len(s) : s[i] = x

\* k * k**-1 cancels
RECURSIVE CancelInv(_)
CancelInv(s) ==
  IF s = <<>> THEN <<>>
  ELSE LET h == Head(s) IN
    IF Tag(h) = "Inv" /\ InSeq(Tail(s), h[2])
      THEN CancelInv(RemoveFirst(Tail(s), h[2]))
    ELSE IF InSeq(Tail(s), <<"Inv", h>>)
      THEN CancelInv(RemoveFirst(Tail(s), <<"Inv", h>>))
    ELSE <<h>> \o CancelInv(Tail(s))

RawMul(c, fs) ==
  IF c[1] = 0 /\ c[2] # 0 THEN Num(0)
  ELSE IF fs = <<>> THEN Rat(c)
  ELSE IF c = RInt(1) THEN (IF Len(fs) = 1 THEN fs[1] ELSE <<"Mul", fs>>)
  ELSE <<"Mul", <<Rat(c)>> \o fs>>

\* like terms of a sum are collected: the coefficient of the first
\* occurrence receives the coefficients of the later ones
RECURSIVE Collect(_)
Collect(ts) ==
  IF ts = <<>> THEN <<>>
  ELSE LET h == Head(ts)
           same == SelectSeq(Tail(ts), LAMBDA u : CoreOf(u) = CoreOf(h))
           rest == SelectSeq(Tail(ts), LAMBDA u : CoreOf(u) # CoreOf(h))
           RECURSIVE Sum(_, _)
           Sum(s, i) == IF i > Len(s) THEN RInt(0) ELSE RAdd(CoeffOf(s[i]), Sum(s, i + 1))
           c == RAdd(CoeffOf(h), Sum(same, 1))
           t == RawMul(c, CoreOf(h))
       IN (IF IsZero(t) THEN <<>> ELSE <<t>>) \o Collect(rest)


MkAddBody(args) ==
  IF AnyRaise(args) THEN FirstRaise(args, 1)
  ELSE LET flat == Concat([i \in 1..Len(args) |-> AddArgs(args[i])], 1)
           ms == SelectSeq(flat, LAMBDA u : Tag(u) = "Matrix")
           ts == Collect(flat)
       IN IF ms # <<>>
            \* matrices of one shape add row by row
            THEN IF Len(ms) < Len(flat) THEN Raise("TypeError")
                 ELSE IF \E i \in 1..Len(ms) : Len(ms[i][2]) # Len(ms[1][2])
                   THEN Raise("ShapeError")
                 ELSE <<"Matrix", [r \in 1..Len(ms[1][2]) |->
                                     MkAdd([i \in 1..Len(ms) |-> ms[i][2][r]])]>>
          ELSE IF ts = <<>> THEN Num(0)
          ELSE IF Len(ts) = 1 THEN ts[1] ELSE <<"Add", ts>>

MkMulBody(args) ==
  IF AnyRaise(args) THEN FirstRaise(args, 1)
  ELSE LET flat == Concat([i \in 1..Len(args) |-> MulArgs(args[i])], 1)
           c == RProd(SelectSeq(flat, IsNum), 1)
           fs == CancelInv(SelectSeq(flat, LAMBDA u : ~IsNum(u)))
           ms == SelectSeq(fs, LAMBDA u : Tag(u) = "Matrix")
           ss == SelectSeq(fs, LAMBDA u : Tag(u) # "Matrix")
       IN IF Len(ms) = 1
            \* a scalar times a matrix scales every row
            THEN <<"Matrix", [i \in 1..Len(ms[1][2]) |->
                                MkMul(<<Rat(c)>> \o ss \o <<ms[1][2][i]>>)]>>
          ELSE IF c[1] = 0 /\ c[2] # 0 THEN Num(0)
          ELSE IF c # RInt(1) /\ Len(fs) = 1 /\ Tag(fs[1]) = "Add" /\ IsCommutative(fs[1])
            \* 2*(a + b) -> 2*a + 2*b
            THEN MkAdd([i \in 1..Len(fs[1][2]) |-> MkMul(<<Rat(c), fs[1][2][i]>>)])
          ELSE RawMul(c, fs)

Neg(e) == MkMul(<<Num(-1), e>>)
MkInvBody(e) ==
  IF IsRaise(e) THEN e
  ELSE IF IsNum(e) THEN Rat(RInv(NumVal(e)))
  ELSE IF Tag(e) = "Inv" THEN e[2]
  ELSE IF Tag(e) = "Mul" THEN MkMul([i \in 1..Len(e[2]) |-> MkInv(e[2][i])])
  ELSE <<"Inv", e>>

(***************************************************************************)
(* Orders and ranges.  <<"pyint", n>> is a native integer argument of a    *)
(* call, <<"int", n>> the library Integer it becomes once it is an         *)
(* argument of a Function node; <<"SliceSum", s, n>> is the expression     *)
(* Slice + n (a Slice is a plain symbol to the expression library).        *)
(***************************************************************************)
Sympify(k) == IF IsPy(k) THEN KInt(k[2]) ELSE k

\* is the key an Expr whose free symbols are all Index variables
OnlyIndexSymbols(k) == Tag(k) \in {"int", "idx"}

KeyAdd(k, n) ==
  CASE IsRaise(k) -> k
    [] Tag(k) = "pyint" -> KPy(k[2] + n)
    [] Tag(k) = "int" -> KInt(k[2] + n)
    [] Tag(k) = "idx" -> KIdx(k[2] + n)
    [] Tag(k) = "sym" -> KSym(k[2] + n)
    [] Tag(k) = "SliceSum" -> <<"SliceSum", k[2], k[3] + n>>
    [] OTHER -> <<"SliceSum", k, n>>

\* a - b for a bound a and a concrete bound b
KeySub(a, b) == KeyAdd(a, -b[2])

Slice(start, end) ==
  IF IsRaise(start) THEN start
  ELSE IF IsRaise(end) THEN end
  ELSE IF ~IsPy(start) /\ ~OnlyIndexSymbols(start) THEN Raise("TypeError")
  ELSE IF IsPy(start) /\ start[2] < 0 THEN Raise("ValueError")
  ELSE IF ~IsPy(end) /\ ~OnlyIndexSymbols(end) THEN Raise("TypeError")
  ELSE IF IsPy(end) /\ end[2] < 0 THEN Raise("ValueError")
  ELSE <<"Slice", Sympify(start), Sympify(end)>>

DT(symbol, index) ==
  IF IsRaise(index) THEN index
  ELSE IF IsPy(index) /\ index[2] < 0 THEN Raise("IndexError")
  ELSE <<"DT", symbol, Sympify(index)>>

phi(node) == <<"phi", node>>
psi(node) == <<"psi", node>>

\* an order expression used as a number: k, k + 1, 3
OrderVal(k) ==
  IF IsRaise(k) THEN k
  ELSE IF IsInt(k) THEN Num(k[2]) ELSE <<"Order", k>>

dDelta(k) ==
  IF IsRaise(k) THEN k
  ELSE IF IsInt(k) THEN (IF k[2] = 0 THEN Num(1) ELSE Num(0))
  ELSE IF ~(k = KIdx(0)) /\ ~IsSlice(k) THEN Raise("TypeError")
  ELSE <<"dDelta", k>>

dLinspace(m, n) ==
  IF IsRaise(m) THEN m
  ELSE IF IsRaise(n) THEN n
  ELSE IF IsSlice(m) \/ IsSlice(n) THEN Raise("TypeError")
  ELSE <<"dLinspace", Sympify(m), Sympify(n)>>

IsConv(e) == Tag(e) \in {"dConv_s", "dConv_v"}

\* a * b written with the operator: a convolution node on the left folds
\* the right operand into its last argument (__mul__), a native number on
\* the left of a convolution node is folded into its first (__rmul__)
RECURSIVE Times(_, _, _)
Times(a, b, native) ==
  IF IsRaise(a) THEN a
  ELSE IF IsRaise(b) THEN b
  ELSE IF IsConv(a)
    THEN <<Tag(a), SubSeq(a[2], 1, Len(a[2]) - 1)
                   \o <<Times(a[2][Len(a[2])], b, FALSE)>>>>
  ELSE IF IsConv(b) /\ native
    THEN <<Tag(b), <<Times(a, b[2][1], native)>> \o Tail(b[2])>>
  ELSE MkMul(<<a, b>>)

(***************************************************************************)
(* dConv_s.eval: a scalar convolution whose arguments are all matrices     *)
(* (probes) is evaluated by multiplying the polynomials a[0] + a[1]*x_.    *)
(***************************************************************************)
x_ == Sym("x_")

\* (a * b).expand(): every term of a times every term of b
Distribute(a, b) ==
  LET ta == AddArgs(a)
      tb == AddArgs(b)
  IN MkAdd([n \in 1..(Len(ta) * Len(tb)) |->
              MkMul(<<ta[((n - 1) \div Len(tb)) + 1], tb[((n - 1) % Len(tb)) + 1]>>)])

\* product of two polynomials in x_ given by their coefficient expressions
ExprPolyMul(p, q) ==
  [d \in 1..(Len(p) + Len(q) - 1) |->
     MkAdd([j \in 1..Len(p) |->
              IF d - j + 1 >= 1 /\ d - j + 1 <= Len(q)
                THEN Distribute(p[j], q[d - j + 1]) ELSE Num(0)])]

RECURSIVE ExprPolyProd(_, _)
ExprPolyProd(ps, i) ==
  IF i = Len(ps) THEN ps[i] ELSE ExprPolyMul(ps[i], ExprPolyProd(ps, i + 1))

\* x_ ** d
XPow(d) == IF d = 0 THEN Num(1) ELSE IF d = 1 THEN x_ ELSE <<"Pow", x_, Num(d)>>

dConv_s_eval(args) ==
  IF \E i \in 1..Len(args) : Tag(args[i]) # "Matrix" THEN <<"dConv_s", args>>
  ELSE IF \E i \in 1..Len(args) : Len(args[i][2]) = 0 THEN Raise("IndexError")
  ELSE LET polys == [i \in 1..Len(args) |->
                       IF Len(args[i][2]) = 1 THEN <<args[i][2][1]>>
                       ELSE <<args[i][2][1], args[i][2][2]>>]
           temp == ExprPolyProd(polys, 1)
       IN IF Len(args[1][2]) = 1
            THEN MkAdd([d \in 1..Len(temp) |-> Distribute(temp[d], XPow(d - 1))])
          ELSE temp[2]

(***************************************************************************)
(* The transform rule set: _dtify dispatches on the class of the node.     *)
(***************************************************************************)
IsSymbol(e) == Tag(e) \in {"Symbol", "phi", "psi", "DT"}
IsNumOrConst(e) == Tag(e) \in {"Number", "Constant"}
IsTime(e) == e = Sym("t")

\* position of the first Number or Constant operand, 0 if there is none
RECURSIVE FirstConst(_, _)
FirstConst(args, i) ==
  IF i > Len(args) THEN 0
  ELSE IF IsNumOrConst(args[i]) THEN i ELSE FirstConst(args, i + 1)

Unweighted(kk, lin) == Num(1)

\* (kk - lin) / kk, the ramp weight of the sine and cosine rules
Weight(kk, lin) ==
  MkMul(<<MkAdd(<<OrderVal(kk), Neg(lin)>>), MkInv(OrderVal(kk))>>)

\* a relational between an order bound and a number has a truth value only
\* when the bound is concrete
Concrete(k) == IsInt(k)

\* variants of the rules that the properties below must tell from them
dMulTermwise(k, args) == MkMul([j \in 1..Len(args) |-> _dtify(args[j], k)])

dAddShifted(k, args) ==
  MkAdd([i \in 1..Len(args) |-> _dtify(args[i], IF i = 1 THEN k ELSE KeyAdd(k, 1))])

\* the range rule without its boundary terms
dMulUncorrected(k, args, i, temp) == temp

RECURSIVE dAdd(_, _)
RECURSIVE dMul(_, _)
RECURSIVE dMulRange(_, _, _, _)
RECURSIVE dSin(_, _)
RECURSIVE dSinRange(_, _, _, _)
RECURSIVE dCos(_, _)
RECURSIVE dCosRange(_, _, _, _)
RECURSIVE dDerivative(_, _, _, _)

dConv(kind, args) ==
  IF AnyRaise(args) THEN FirstRaise(args, 1)
  ELSE IF kind = "dConv_s" THEN dConv_s_eval(args)
  ELSE <<kind, args>>

dAdd(k, args) ==
  IF ~IsInt(k) /\ ~IsSlice(k) /\ ~OnlyIndexSymbols(k) THEN Raise("TypeError")
  ELSE MkAdd([i \in 1..Len(args) |-> _dtify(args[i], k)])

dMulRange(k, args, i, temp) ==
  IF i >= k[2][2] THEN temp
  ELSE dMulRange(k, args, i + 1,
         MkAdd(<<temp,
                 Times(_dtify(args[1], Slice(KeySub(k[2], KInt(i)), KeySub(k[3], KInt(i)))),
                       _dtify(MkMul(Tail(args)), KPy(i)), FALSE)>>))

dMul(k, args) ==
  LET i == FirstConst(args, 1)
      n == Len(args)
  IN IF i = 1 THEN MkMul(<<args[1], _dtify(MkMul(Tail(args)), k)>>)
     ELSE IF i = n /\ i > 0 THEN MkMul(<<_dtify(MkMul(SubSeq(args, 1, n - 1)), k), args[n]>>)
     ELSE IF i > 0
       THEN MkMul(<<_dtify(MkMul(SubSeq(args, 1, i - 1)), k), args[i],
                    _dtify(MkMul(SubSeq(args, i + 1, n)), k)>>)
     ELSE IF ~IsInt(k) /\ ~IsSlice(k)
       THEN IF ~OnlyIndexSymbols(k) THEN Raise("TypeError")
            ELSE dConv("dConv_s", [j \in 1..n |-> _dtify(args[j], Slice(KPy(0), k))])
     ELSE IF IsSlice(k)
       THEN IF ~Concrete(k[2]) THEN Raise("TypeError")
            ELSE IF k[2][2] >= 1
              THEN dMulRange(k, args, 0,
                     dConv("dConv_v", <<_dtify(args[1], Slice(KPy(0), KeySub(k[3], k[2]))),
                                        _dtify(MkMul(Tail(args)), k)>>))
            ELSE dConv("dConv_v", <<_dtify(args[1], k), _dtify(MkMul(Tail(args)), k)>>)
     ELSE IF k[2] >= 1
       THEN dConv("dConv_s", [j \in 1..n |-> _dtify(args[j], Slice(KPy(0), k))])
     ELSE MkMul([j \in 1..n |-> _dtify(args[j], KPy(0))])

dSinRange(k, u, i, temp) ==
  IF i >= k[2][2] THEN temp
  ELSE LET lo == KeySub(k[2], KInt(i))
           hi == KeySub(k[3], KInt(i))
       IN dSinRange(k, u, i + 1,
            MkAdd(<<temp,
                    Times(MkMul(<<Weight(k[3], dLinspace(lo, hi)), DT(psi(u), Slice(lo, hi))>>),
                          _dtify(u, KPy(i)), FALSE)>>))

dSin(k, args) ==
  LET u == args[1] IN
  IF Len(args) > 1 THEN Raise("ValueError")
  ELSE IF ~IsInt(k) /\ ~IsSlice(k)
    THEN IF ~OnlyIndexSymbols(k) THEN Raise("TypeError")
         ELSE dConv("dConv_s",
                <<MkMul(<<Weight(k, dLinspace(KPy(0), KeyAdd(k, -1))),
                          DT(psi(u), Slice(KPy(0), KeyAdd(k, -1)))>>),
                  _dtify(u, Slice(KPy(1), k))>>)
  ELSE IF IsSlice(k)
    THEN IF ~Concrete(k[2]) THEN Raise("TypeError")
         ELSE IF k[2][2] >= 1
           THEN LET d == KeySub(k[3], k[2])
                    Psi1 == DT(psi(u), Slice(KPy(0), d))
                IN dSinRange(k, u, 0,
                     dConv("dConv_v", <<MkMul(<<Weight(k[3], dLinspace(KPy(0), d)), Psi1>>),
                                        _dtify(u, k)>>))
         ELSE LET s0 == Slice(KPy(0), k[3])
                  phi_ == DT(phi(u), KPy(0))
                  psi_ == DT(psi(u), s0)
              IN MkAdd(<<MkMul(<<dDelta(s0), phi_>>),
                         Times(dConv("dConv_v",
                                 <<MkMul(<<Weight(k[3], dLinspace(KPy(0), k[3])), psi_>>),
                                   _dtify(u, s0)>>),
                               MkAdd(<<Num(1), Neg(dDelta(s0))>>), FALSE)>>)
  ELSE IF k[2] > 1
    THEN dConv("dConv_s",
           <<MkMul(<<Weight(k, dLinspace(KPy(0), KeyAdd(k, -1))),
                     DT(psi(u), Slice(KPy(0), KeyAdd(k, -1)))>>),
             _dtify(u, Slice(KPy(1), k))>>)
  ELSE IF k[2] = 1 THEN MkMul(<<DT(psi(u), KPy(0)), _dtify(u, KPy(1))>>)
  ELSE IF k[2] = 0 THEN (IF IsTime(u) THEN Num(0) ELSE DT(phi(u), KPy(0)))
  ELSE Raise("ValueError")

dCosRange(k, u, i, temp) ==
  IF i >= k[2][2] THEN temp
  ELSE LET lo == KeySub(k[2], KInt(i))
           hi == KeySub(k[3], KInt(i))
       IN dCosRange(k, u, i + 1,
            MkAdd(<<temp,
                    Neg(Times(MkMul(<<Weight(k[3], dLinspace(lo, hi)), DT(phi(u), Slice(lo, hi))>>),
                              _dtify(u, KPy(i)), FALSE))>>))

dCos(k, args) ==
  LET u == args[1] IN
  IF Len(args) > 1 THEN Raise("ValueError")
  ELSE IF ~IsInt(k) /\ ~IsSlice(k)
    THEN IF ~OnlyIndexSymbols(k) THEN Raise("TypeError")
         ELSE Neg(dConv("dConv_s",
                <<MkMul(<<Weight(k, dLinspace(KPy(0), KeyAdd(k, -1))),
                          DT(phi(u), Slice(KPy(0), KeyAdd(k, -1)))>>),
                  _dtify(u, Slice(KPy(1), k))>>))
  ELSE IF IsSlice(k)
    THEN IF ~Concrete(k[2]) THEN Raise("TypeError")
         ELSE IF k[2][2] >= 1
           THEN LET d == KeySub(k[3], k[2])
                    Phi1 == DT(phi(u), Slice(KPy(0), d))
                IN dCosRange(k, u, 0,
                     Neg(dConv("dConv_v", <<MkMul(<<Weight(k[3], dLinspace(KPy(0), d)), Phi1>>),
                                            _dtify(u, k)>>)))
         ELSE LET s0 == Slice(KPy(0), k[3])
                  phi_ == DT(phi(u), s0)
                  psi_ == DT(psi(u), KPy(0))
              IN MkAdd(<<Neg(MkMul(<<dDelta(s0), psi_>>)),
                         Neg(Times(dConv("dConv_v",
                                     <<MkMul(<<Weight(k[3], dLinspace(KPy(0), k[3])), phi_>>),
                                       _dtify(u, s0)>>),
                                   MkAdd(<<Num(1), Neg(dDelta(s0))>>), FALSE))>>)
  ELSE IF k[2] > 1
    THEN Neg(dConv("dConv_s",
           <<MkMul(<<Weight(k, dLinspace(KPy(0), KeyAdd(k, -1))),
                     DT(phi(u), Slice(KPy(0), KeyAdd(k, -1)))>>),
             _dtify(u, Slice(KPy(1), k))>>))
  ELSE IF k[2] = 1 THEN Neg(MkMul(<<DT(phi(u), KPy(0)), _dtify(u, KPy(1))>>))
  ELSE IF k[2] = 0 THEN (IF IsTime(u) THEN Num(1) ELSE DT(psi(u), KPy(0)))
  ELSE Raise("ValueError")

\* dPow has no eval: the node stays as it is built
dPow(k, base, exp) == <<"dPow", k, base, exp>>

dDerivativeUnshifted(k, expr, var, count) == MkMul(<<OrderVal(k), _dtify(expr, k)>>)

dDerivative(k, expr, var, count) ==
  IF var # "t" THEN Raise("ValueError")
  ELSE MkMul(<<OrderVal(KeyAdd(k, 1)), _dtify(expr, KeyAdd(k, 1))>>)

_dtifyBody(Node, k) ==
  IF IsRaise(k) THEN k
  ELSE CASE Tag(Node) = "Add" -> dAdd(Sympify(k), Node[2])
    [] Tag(Node) = "Mul" -> dMul(Sympify(k), Node[2])
    [] Tag(Node) = "sin" -> dSin(Sympify(k), <<Node[2]>>)
    [] Tag(Node) = "cos" -> dCos(Sympify(k), <<Node[2]>>)
    [] Tag(Node) = "Pow" -> dPow(Sympify(k), Node[2], Node[3])
    [] Tag(Node) = "Derivative" -> dDerivative(Sympify(k), Node[2], Node[3], Node[4])
    [] IsSymbol(Node) ->
         IF ~IsTime(Node) THEN DT(Node, k)
         ELSE IF ~IsPy(k) /\ ~IsSlice(k)
           THEN IF ~OnlyIndexSymbols(k) THEN Raise("TypeError") ELSE DT(Node, k)
         ELSE IF IsSlice(k) THEN DT(Node, k)
         ELSE IF k[2] < 0 THEN Raise("ValueError")
         ELSE IF k[2] = 1 THEN Num(1) ELSE Num(0)
    [] IsNumOrConst(Node) -> MkMul(<<Node, dDelta(k)>>)
    [] OTHER -> Raise("TypeError")

(***************************************************************************)
(* The convolution engine: flattening of convolution trees                 *)
(* (expand(func=True)) by dConv_s/dConv_v._eval_expand_func.               *)
(***************************************************************************)
\* position of the first argument that contains a dConv_v and is a sum, a
\* dConv_v or a product; 0 if there is none
RECURSIVE FirstNested(_, _)
FirstNested(args, i) ==
  IF i > Len(args) THEN 0
  ELSE IF Has(args[i], {"dConv_v"}) /\ Tag(args[i]) \in {"Add", "dConv_v", "Mul"}
    THEN i ELSE FirstNested(args, i + 1)

\* Integer and Float factors become native numbers
IsNative(e) == IsNum(e) /\ e[3] = 1

\* reduce(lambda a, b: a * b, args)
RECURSIVE ReduceTimes(_, _, _)
ReduceTimes(acc, fs, i) ==
  IF i > Len(fs) THEN acc
  ELSE ReduceTimes(Times(acc, fs[i], IsNative(acc)), fs, i + 1)

\* the argument list after a nested dConv_v at position i is taken apart
Splice(args, i) ==
  LET n == Len(args)
      inner == args[i][2]
  IN IF i = 1 THEN inner \o Tail(args)
     ELSE IF i = n THEN SubSeq(args, 1, n - 1) \o inner
     ELSE SubSeq(args, 1, i - 2) \o inner \o SubSeq(args, 1, i)

Replace(args, i, x) == [j \in 1..Len(args) |-> IF j = i THEN x ELSE args[j]]

\* one splice, not repeated on what it returns
SpliceOnce(self) ==
  LET i == FirstNested(self[2], 1)
  IN IF i > 0 /\ Tag(self[2][i]) = "dConv_v" THEN <<Tag(self), Splice(self[2], i)>> ELSE self

RECURSIVE _eval_expand_func(_)

_eval_expand_func(self) ==
  LET args == self[2]
      i == FirstNested(args, 1)
  IN IF i = 0 THEN self
     ELSE IF Tag(args[i]) = "Add"
       \* x, y = arg.as_two_terms()
       THEN MkAdd(<<expand(<<Tag(self), Replace(args, i, args[i][2][1])>>),
                    expand(<<Tag(self), Replace(args, i, MkAdd(Tail(args[i][2])))>>)>>)
     ELSE IF Tag(args[i]) = "dConv_v"
       THEN expand(<<Tag(self), Splice(args, i)>>)
     ELSE LET new == ReduceTimes(args[i][2][1], args[i][2], 2)
          IN IF new = args[i] THEN Raise("RecursionError")
             ELSE expand(<<Tag(self), Replace(args, i, new)>>)

\* expr.expand(func=True, mul=False): the arguments first, then the node
expandBody(e) ==
  IF IsRaise(e) THEN e
  ELSE LET cs == Children(e)
           sargs == [i \in 1..Len(cs) |-> expand(cs[i])]
       IN IF AnyRaise(sargs) THEN FirstRaise(sargs, 1)
          ELSE CASE Tag(e) = "Add" -> MkAdd(sargs)
                 [] Tag(e) = "Mul" -> MkMul(sargs)
                 [] IsConv(e) -> _eval_expand_func(<<Tag(e), sargs>>)
                 [] OTHER -> e

(***************************************************************************)
(* What the nodes denote, over concrete coefficient sequences.  A value is *)
(* <<"s", n, d>> (a number) or <<"v", rows>> (a vector of numbers).  cf    *)
(* gives the coefficients of every symbol (cf[symbol][j + 1] is order j),  *)
(* kv the value of the Index k.                                            *)
(***************************************************************************)
S(r) == <<"s", r[1], r[2]>>
V(rows) == <<"v", rows>>
IsVec(v) == Head(v) = "v"
SVal(v) == SubSeq(v, 2, 3)
NaN == <<0, 0>>

KeyVal(k, kv) == IF Tag(k) = "idx" THEN kv + k[2] ELSE k[2]

Coef(cf, symbol, j) ==
  IF symbol \in DOMAIN cf /\ j >= 0 /\ j < Len(cf[symbol])
    THEN cf[symbol][j + 1] ELSE NaN

\* elementwise combination of two values, a number being broadcast
Lift(F(_, _), a, b) ==
  IF IsVec(a) /\ IsVec(b)
    THEN IF Len(a[2]) = Len(b[2])
           THEN V([i \in 1..Len(a[2]) |-> F(a[2][i], b[2][i])])
           ELSE V([i \in 1..Len(a[2]) |-> NaN])
  ELSE IF IsVec(a) THEN V([i \in 1..Len(a[2]) |-> F(a[2][i], SVal(b))])
  ELSE IF IsVec(b) THEN V([i \in 1..Len(b[2]) |-> F(SVal(a), b[2][i])])
  ELSE S(F(SVal(a), SVal(b)))

AsVec(v) == IF IsVec(v) THEN v[2] ELSE <<SVal(v)>>

RECURSIVE RSum(_, _)
RSum(s, i) == IF i > Len(s) THEN RInt(0) ELSE RAdd(s[i], RSum(s, i + 1))

\* product of two polynomials given by their coefficient rows
PolyMul(p, q) ==
  IF p = <<>> \/ q = <<>> THEN <<>>
  ELSE [d \in 1..(Len(p) + Len(q) - 1) |->
         RSum([j \in 1..Len(p) |->
                 IF d - j + 1 >= 1 /\ d - j + 1 <= Len(q)
                   THEN RMul(p[j], q[d - j + 1]) ELSE RInt(0)], 1)]

RECURSIVE PolyProd(_, _)
PolyProd(vs, i) ==
  IF i = Len(vs) THEN vs[i] ELSE PolyMul(vs[i], PolyProd(vs, i + 1))

\* dConv_v: the coefficients of degree 0..n of the product of the
\* polynomials whose coefficient rows (of length n + 1) are the arguments
ConvRows(vs) ==
  LET n == Len(vs[1]) IN SubSeq(PolyProd(vs, 1), 1, n)

RECURSIVE EvalAll(_, _, _, _, _)

EvalAll(F(_, _), args, i, kv, cf) ==
  IF i = Len(args) THEN Eval(args[i], kv, cf)
  ELSE Lift(F, Eval(args[i], kv, cf), EvalAll(F, args, i + 1, kv, cf))

EvalBody(e, kv, cf) ==
  CASE Tag(e) = "Number" -> S(NumVal(e))
    [] Tag(e) \in {"Order", "DT"} /\ Tag(e[Len(e)]) = "SliceSum" -> S(NaN)
    [] Tag(e) = "Order" -> S(RInt(KeyVal(e[2], kv)))
    [] Tag(e) = "Constant" -> S(Coef(cf, e, 0))
    [] Tag(e) = "Inv" ->
         LET v == Eval(e[2], kv, cf)
         IN IF IsVec(v) THEN V([i \in 1..Len(v[2]) |-> RInv(v[2][i])]) ELSE S(RInv(SVal(v)))
    [] Tag(e) = "DT" ->
         IF IsSlice(e[3])
           THEN LET lo == KeyVal(e[3][2], kv)
                    hi == KeyVal(e[3][3], kv)
                IN V([i \in 1..(IF hi >= lo THEN hi - lo + 1 ELSE 0) |-> Coef(cf, e[2], lo + i - 1)])
           ELSE S(Coef(cf, e[2], KeyVal(e[3], kv)))
    [] Tag(e) = "dDelta" ->
         IF IsSlice(e[2])
           THEN LET lo == KeyVal(e[2][2], kv)
                    hi == KeyVal(e[2][3], kv)
                IN V([i \in 1..(IF hi >= lo THEN hi - lo + 1 ELSE 0) |->
                        RInt(IF lo + i - 1 = 0 THEN 1 ELSE 0)])
           ELSE S(RInt(IF KeyVal(e[2], kv) = 0 THEN 1 ELSE 0))
    [] Tag(e) = "dLinspace" ->
         LET lo == KeyVal(e[2], kv)
             hi == KeyVal(e[3], kv)
         IN V([i \in 1..(IF hi >= lo THEN hi - lo + 1 ELSE 0) |-> RInt(lo + i - 1)])
    [] Tag(e) = "Add" -> EvalAll(RAdd, e[2], 1, kv, cf)
    [] Tag(e) = "Mul" -> EvalAll(RMul, e[2], 1, kv, cf)
    [] Tag(e) = "dConv_v" ->
         V(ConvRows([i \in 1..Len(e[2]) |-> AsVec(Eval(e[2][i], kv, cf))]))
    [] Tag(e) = "dConv_s" ->
         LET rows == ConvRows([i \in 1..Len(e[2]) |-> AsVec(Eval(e[2][i], kv, cf))])
         IN IF rows = <<>> THEN S(RInt(0)) ELSE S(rows[Len(rows)])
    [] OTHER -> S(NaN)


(***************************************************************************)
(* Unknown-term extraction.                                                *)
(***************************************************************************)
\* expr.subs(m): the nodes in DOMAIN m are replaced, the tree is rebuilt
SubsBody(e, m) ==
  IF IsRaise(e) THEN e
  ELSE IF e \in DOMAIN m THEN m[e]
  ELSE LET cs == Children(e)
           sargs == [i \in 1..Len(cs) |-> Subs(cs[i], m)]
       IN CASE Tag(e) = "Add" -> MkAdd(sargs)
            [] Tag(e) = "Mul" -> MkMul(sargs)
            [] IsConv(e) -> dConv(Tag(e), sargs)
            [] Tag(e) = "Inv" -> MkInv(sargs[1])
            [] Tag(e) \in {"sin", "cos"} -> <<Tag(e), sargs[1]>>
            [] Tag(e) = "Pow" -> <<"Pow", sargs[1], sargs[2]>>
            [] Tag(e) = "Derivative" -> <<"Derivative", sargs[1], e[3], e[4]>>
            [] Tag(e) = "Function" -> <<"Function", e[2], sargs[1]>>
            [] OTHER -> e

\* search_for_func(expr, func), as a set
RECURSIVE search_for_func(_, _)
search_for_func(e, func) ==
  (IF Tag(e) = func THEN {e} ELSE {})
    \cup UNION {search_for_func(Children(e)[i], func) : i \in 1..Len(Children(e))}

DTSymbols(e) == {s_ \in FreeSymbols(e) : Tag(s_) = "DT"}

\* expr.coeff(symbol): the terms of the sum that have the symbol as a
\* factor, with that factor removed
Coeff(e, symbol) ==
  LET ts == SelectSeq(AddArgs(e), LAMBDA u : InSeq(MulArgs(u), symbol))
  IN MkAdd([i \in 1..Len(ts) |-> MkMul(RemoveFirst(MulArgs(ts[i]), symbol))])

KeyEq(a, b) == Sympify(a) = Sympify(b)
IsZeroKey(a) == Sympify(a) = KInt(0)

\* the interior of a window: a start of 0 becomes 1, an end of k becomes k - 1
Interior(lo, hi, k) ==
  <<IF IsZeroKey(lo) THEN KPy(1) ELSE lo, IF KeyEq(hi, k) THEN KeyAdd(k, -1) ELSE hi>>

\* the boundary rows of a window: order 0 if it starts at 0, order k if it ends at k
Boundary(lo, hi, k, Row0, RowK) ==
  (IF IsZeroKey(lo) THEN <<Row0>> ELSE <<>>) \o (IF KeyEq(hi, k) THEN <<RowK>> ELSE <<>>)

RhsSubs(E, k) ==
  [d \in DTSymbols(E) |->
     IF IsSlice(d[3])
       THEN LET w == Interior(d[3][2], d[3][3], k) IN DT(d[2], Slice(w[1], w[2]))
     ELSE IF KeyEq(d[3], k) THEN Num(0) ELSE d]

LinRhsSubs(E, k) ==
  [l \in search_for_func(E, "dLinspace") |->
     LET w == Interior(l[2], l[3], k) IN dLinspace(w[1], w[2])]

LinLhsSubs(E, k) ==
  [l \in search_for_func(E, "dLinspace") |->
     LET array == Boundary(l[2], l[3], k, Num(0), OrderVal(k))
     IN IF Len(array) > 1 THEN <<"Matrix", array>>
        ELSE IF Len(array) = 1 THEN array[1]
        ELSE Raise("ValueError")]

LhsSubs(E, k) ==
  [d \in DTSymbols(E) |->
     IF IsSlice(d[3])
       THEN <<"Matrix", Boundary(d[3][2], d[3][3], k, DT(d[2], KPy(0)), DT(d[2], k))>>
     ELSE IF ~KeyEq(d[3], k) /\ ~IsZeroKey(d[3]) THEN Num(0) ELSE d]

MapRaises(m) == \E x \in DOMAIN m : IsRaise(m[x])
MapRaise(m) == (CHOOSE x \in DOMAIN m : IsRaise(m[x]))

\* every coefficient of the time variable is moved from LHS to RHS
RECURSIVE MoveTime(_, _, _)
MoveTime(RHS, LHS, ts) ==
  IF ts = {} THEN <<RHS, LHS>>
  ELSE LET s_ == CHOOSE x \in ts : TRUE
           temp == MkMul(<<Coeff(LHS, s_), s_>>)
       IN MoveTime(MkAdd(<<RHS, Neg(temp)>>), MkAdd(<<LHS, Neg(temp)>>), ts \ {s_})

\* the unknowns whose coefficient in LHS still depends on the Index
OrderDependent(LHS) == {s_ \in DTSymbols(LHS) : HasIndex(Coeff(LHS, s_))}

Undivided(RHS, temp) == RHS

\* RHS / temp, simplified
Divide(RHS, temp) == MkMul(<<RHS, MkInv(temp)>>)

\* steps 1-6: everything before the division by an order-dependent coefficient
Separate(expr, k) ==
  LET E == expand(expr) IN
  IF IsRaise(E) THEN E
  ELSE IF Has(E, {"dConv_v"}) THEN Raise("ValueError")
  ELSE IF MapRaises(RhsSubs(E, k)) THEN MapRaise(RhsSubs(E, k))
  ELSE IF MapRaises(LinLhsSubs(E, k)) THEN MapRaise(LinLhsSubs(E, k))
  ELSE LET RHS2 == Subs(Subs(E, RhsSubs(E, k)), LinRhsSubs(E, k))
           LHS1 == Subs(Neg(E), LinLhsSubs(E, k))
           LHS2 == Subs(LHS1, LhsSubs(LHS1, k))
       IN IF IsRaise(RHS2) THEN RHS2
          ELSE IF IsRaise(LHS2) THEN LHS2
          ELSE LET moved == MoveTime(RHS2, LHS2,
                              {s_ \in DTSymbols(LHS2) : s_[2] = Sym("t")})
                   deltas == {d \in search_for_func(moved[2], "dDelta") : KeyEq(d[2], k)}
               IN <<"pair", moved[1], Subs(moved[2], [d \in deltas |-> Num(0)])>>

\* steps 7-8, for the unknown that the iteration over LHS.free_symbols
\* meets first among those with an order-dependent coefficient
Normalise(sep, first) ==
  IF IsRaise(sep) THEN sep
  ELSE LET RHS == IF first \in OrderDependent(sep[3])
                    THEN Divide(sep[2], Coeff(sep[3], first)) ELSE sep[2]
           LHS == IF first \in OrderDependent(sep[3]) THEN first ELSE sep[3]
       IN IF OrderDependent(LHS) # {} THEN Raise("ValueError")
          ELSE <<"pair", RHS, LHS>>

\* the possible results of extract_unknown_term(expr, k): the iteration
\* order of a set of symbols is not fixed
NormaliseAny(sep) ==
  IF IsRaise(sep) THEN {sep}
  ELSE IF OrderDependent(sep[3]) = {} THEN {Normalise(sep, Num(0))}
  ELSE {Normalise(sep, first) : first \in OrderDependent(sep[3])}

extract_unknown_termBody(expr, k) ==
  UNION {NormaliseAny(sep) : sep \in {Separate(expr, k)}}


(***************************************************************************)
(* The compiled recurrence equation k_eqn and the compiler driver dtify.   *)
(* A k_eqn is <<"k_eqn", expr, k, eut, RHS, LHS, COEFF, int_var>>.         *)
(***************************************************************************)
EqExpr(q) == q[2]
EqK(q) == q[3]
EqEut(q) == q[4]
EqRHS(q) == q[5]
EqLHS(q) == q[6]
EqCOEFF(q) == q[7]
EqInt(q) == q[8]
IsEqn(q) == Tag(q) = "k_eqn"

\* the order of a coefficient (for a range, its end) and its value with
\* every Index set to 0
OrderKey(d) == IF IsSlice(d[3]) THEN d[3][3] ELSE d[3]
OrderAtZero(key) == IF Tag(key) = "SliceSum" THEN key[3] ELSE KeyVal(key, 0)

\* the order of any coefficient of the expression
AnyIndex(expr) == {OrderKey(d) : d \in DTSymbols(expr)}

\* the keys obtain_unknown_index can return: the one of largest value that
\* comes first in the enumeration of the symbols, which is not fixed
obtain_unknown_index(expr) ==
  LET ds == DTSymbols(expr)
  IN {OrderKey(d) : d \in {d \in ds :
        \A o \in ds : OrderAtZero(OrderKey(o)) <= OrderAtZero(OrderKey(d))}}

\* Coeffs: one entry per variable name, the entry written last stays
CoeffMaps(LHS) ==
  LET ds == DTSymbols(LHS)
      names == {d[2] : d \in ds}
  IN {[n \in names |-> Coeff(LHS, pick[n])] :
        pick \in {f \in [names -> ds] : \A n \in names : f[n][2] = n}}

k_eqn_init(expr, eut, int_var) ==
  IF IsRaise(expr) THEN {expr}
  ELSE IF DTSymbols(expr) = {} THEN {Raise("TypeError")}
  ELSE UNION {
         UNION {
           IF IsRaise(r) THEN {r}
           ELSE {<<"k_eqn", expr, kk, eut, r[2], r[3], c, int_var>> : c \in CoeffMaps(r[3])}
           : r \in (IF eut THEN extract_unknown_term(expr, kk)
                    ELSE {<<"pair", Num(0), expr>>}) }
         : kk \in obtain_unknown_index(expr) }

\* k_eqn.extract_unknown_terms(): RHS and LHS are replaced, nothing else
extract_unknown_terms(q) ==
  IF EqEut(q) THEN {Raise("ValueError")}
  ELSE {IF IsRaise(r) THEN r
        ELSE <<"k_eqn", EqExpr(q), EqK(q), EqEut(q), r[2], r[3], EqCOEFF(q), EqInt(q)>>
        : r \in extract_unknown_term(EqExpr(q), EqK(q))}

\* all sequences drawing element i from the set ss[i]
RECURSIVE SeqProduct(_, _)
SeqProduct(ss, i) ==
  IF i > Len(ss) THEN {<<>>}
  ELSE {<<h>> \o t : h \in ss[i], t \in SeqProduct(ss, i + 1)}

RECURSIVE SetToSeq(_)
SetToSeq(S_) ==
  IF S_ = {} THEN <<>>
  ELSE LET x == CHOOSE x \in S_ : TRUE IN <<x>> \o SetToSeq(S_ \ {x})

TrigNodes(expr) == search_for_func(expr, "sin") \cup search_for_func(expr, "cos")

\* sin(u) -> phi_u, cos(u) -> psi_u, outermost first
TrigSubs(expr) ==
  Subs(expr, [n \in TrigNodes(expr) |-> IF Tag(n) = "sin" THEN phi(n[2]) ELSE psi(n[2])])

\* the string an order key is printed as in the name of a coefficient
RECURSIVE KeyName(_)
KeyName(k) ==
  CASE IsInt(k) -> ToString(k[2])
    [] IsIdx(k) -> IF k[2] = 0 THEN "k" ELSE "k + " \o ToString(k[2])
    [] IsSlice(k) -> KeyName(k[2]) \o ":" \o KeyName(k[3])
    [] OTHER -> "n"

\* symbol.name: a coefficient is a symbol named after its variable and order
RECURSIVE NameOf(_)
NameOf(s_) ==
  CASE Tag(s_) \in {"Symbol", "Constant"} -> s_[2]
    [] Tag(s_) = "DT" -> NameOf(s_[2]) \o "[" \o KeyName(s_[3]) \o "]"
    [] Tag(s_) \in {"phi", "psi"} /\ Tag(s_[2]) = "Symbol" -> Tag(s_) \o "_" \o s_[2][2]
    [] OTHER -> Tag(s_) \o "_"

\* every free symbol whose name is listed becomes a Constant of that name
ConstSubs(expr, constants) ==
  Subs(expr, [s_ \in {s_ \in FreeSymbols(expr) : NameOf(s_) \in constants}
                |-> Const(NameOf(s_))])

\* a defining equation for each trig symbol that occurs, and no other
TrigEquationsOccurring(expr) ==
  {<<s_, MkAdd(<<s_, Neg(<<IF Tag(s_) = "phi" THEN "sin" ELSE "cos", s_[2]>>)>>)>> :
     s_ \in {s_ \in FreeSymbols(expr) : Tag(s_) \in {"phi", "psi"}}}

\* the defining equations of the trig symbols of the main expression:
\* both of a pair whenever one of them occurs
TrigEquations(expr) ==
  LET us == {x[2] : x \in {x \in FreeSymbols(expr) : Tag(x) \in {"phi", "psi"}}}
  IN {<<phi(u), MkAdd(<<phi(u), Neg(<<"sin", u>>)>>)>> : u \in us}
       \cup {<<psi(u), MkAdd(<<psi(u), Neg(<<"cos", u>>)>>)>> : u \in us}

\* the possible results of dtify(expr, k, etf, eut, constants)
dtifyBody(expr0, k, etf, eut, constants) ==
  LET expr1 == ConstSubs(expr0, constants)
      trig == Has(expr1, {"sin", "cos"})
      expr == IF trig THEN TrigSubs(expr1) ELSE expr1
      aux == IF trig /\ etf THEN SetToSeq(TrigEquations(expr)) ELSE <<>>
  IN IF DTSymbols(expr1) # {} THEN {Raise("TypeError")}
     ELSE IF aux = <<>> THEN k_eqn_init(_dtify(expr, k), eut, <<"None">>)
     ELSE {IF AnyRaise(qs) THEN FirstRaise(qs, 1) ELSE <<"list", qs>> :
             qs \in SeqProduct(<<k_eqn_init(_dtify(expr, k), eut, <<"None">>)>>
                     \o [i \in 1..Len(aux) |-> k_eqn_init(_dtify(aux[i][2], k), eut, aux[i][1])], 1)}


\* the sine and cosine rules of sin(t), cos(t) at the concrete order n, and the
\* values they give over the coefficients cf
TrigRulesBody(n, cf) ==
  LET rule == [f \in {"sin", "cos"} |-> _dtify(<<f, <<"Symbol", "t">>>>, <<"pyint", n>>)]
  IN <<rule["sin"], rule["cos"],
       SVal(Eval(rule["sin"], 0, cf)), SVal(Eval(rule["cos"], 0, cf))>>

(***************************************************************************)
(* pre_lambdify: the end of every range and of every dLinspace is raised   *)
(* by one, by one substitution after the other.                            *)
(***************************************************************************)
\* the enumerations of a set of symbols
RECURSIVE Enumerations(_)
Enumerations(S_) ==
  IF S_ = {} THEN {<<>>}
  ELSE UNION {{<<s_>> \o rest : rest \in Enumerations(S_ \ {s_})} : s_ \in S_}

\* search_for_func(expr, func), as the list of the preorder traversal
RECURSIVE preorder_traversal(_, _)
preorder_traversal(e, func) ==
  (IF Tag(e) = func THEN <<e>> ELSE <<>>)
    \o Concat([i \in 1..Len(Children(e)) |-> preorder_traversal(Children(e)[i], func)], 1)

\* for DT_ in ds: expr_ = expr_.subs(DT_, DT(DT_.symbol, Slice(start, end + 1)))
RECURSIVE ExtendRanges(_, _)
ExtendRanges(expr_, ds) ==
  IF ds = <<>> THEN expr_
  ELSE LET d == Head(ds)
       IN ExtendRanges(Subs(expr_, d :> DT(d[2], Slice(d[3][2], KeyAdd(d[3][3], 1)))),
                       Tail(ds))

\* for dlinspace in ls: expr_ = expr_.subs(dlinspace, dLinspace(start, end + 1))
RECURSIVE ExtendLinspaces(_, _)
ExtendLinspaces(expr_, ls) ==
  IF ls = <<>> THEN expr_
  ELSE LET l == Head(ls)
       IN ExtendLinspaces(Subs(expr_, l :> dLinspace(l[2], KeyAdd(l[3], 1))), Tail(ls))

\* the possible results of pre_lambdify(expr): the iteration order of
\* expr.free_symbols is not fixed
pre_lambdifyBody(expr) ==
  {ExtendLinspaces(e1, preorder_traversal(e1, "dLinspace")) :
     e1 \in {ExtendRanges(expr, ds) :
               ds \in Enumerations({d \in DTSymbols(expr) : IsSlice(d[3])})}}

\* a constructor call of the class cls: Slice(start, end), DT(symbol, index),
\* dDelta(k), dConv_s over probes
NewBody(cls, args) ==
  CASE cls = "Slice" -> Slice(args[1], args[2])
    [] cls = "DT" -> DT(args[1], args[2])
    [] cls = "dDelta" -> dDelta(Sympify(args[1]))
    [] cls = "dConv_s" -> dConv("dConv_s", args[1])

\* the arguments are evaluated once, then the function is applied
Apply(f, a) ==
  CASE f = "MkAdd" -> MkAddBody(a[1])
    [] f = "MkMul" -> MkMulBody(a[1])
    [] f = "MkInv" -> MkInvBody(a[1])
    [] f = "Subs" -> SubsBody(a[1], a[2])
    [] f = "_dtify" -> _dtifyBody(a[1], a[2])
    [] f = "expand" -> expandBody(a[1])
    [] f = "extract_unknown_term" -> extract_unknown_termBody(a[1], a[2])
    [] f = "dtify" -> dtifyBody(a[1], a[2], a[3], a[4], a[5])
    [] f = "Eval" -> EvalBody(a[1], a[2], a[3])
    [] f = "TrigRules" -> TrigRulesBody(a[1], a[2])
    [] f = "new" -> NewBody(a[1], a[2])
    [] f = "pre_lambdify" -> pre_lambdifyBody(a[1])
    [] f = "__mul__" -> Times(a[1], a[2], a[3])

Call(f, a) == CHOOSE r \in {Apply(f, v) : v \in {a}} : TRUE

(***************************************************************************)
(* The state machine.  arg is the input drawn initially, op the operation  *)
(* applied last, ret what it returned, hist the coefficients known so far. *)
(***************************************************************************)
MaxOrder == 4
MaxStep == 5
MaxCalls == 3

x == Sym("x")
y == Sym("y")
z == Sym("z")
w == Sym("w")
t == Sym("t")
a == Const("a")

\* the input expressions are written in the form the expression library
\* gives them: like terms collected, Mul.args in the order Number, Symbol,
\* Constant, then function nodes and the phi/psi symbols
Add(args) == <<"Add", args>>
Mul(args) == <<"Mul", args>>

Products ==
  {Mul(<<x, y>>), Mul(<<x, y, z>>), Mul(<<Num(2), x, y>>),
   Mul(<<x, y, a>>), Mul(<<a, phi(y), psi(y)>>),
   Mul(<<x, a, phi(y)>>), Mul(<<x, phi(y)>>)}

Equations ==
  {Add(<<z, Mul(<<Num(-1), x, y>>)>>),
   Add(<<w, Mul(<<Num(-1), x, y, z>>)>>),
   Add(<<Num(3), z, Mul(<<Num(-1), x, y>>)>>),
   Add(<<y, Mul(<<Num(-1), <<"sin", x>>>>)>>),
   Add(<<phi(x), Mul(<<Num(-1), <<"sin", x>>>>)>>),
   Add(<<<<"Derivative", x, "t", 1>>, x>>),
   Add(<<x, y>>), Add(<<x, Num(3)>>), Add(<<x, <<"cos", t>>>>),
   Add(<<<<"Derivative", x, "t", 1>>, <<"Derivative", y, "t", 1>>>>)}

Unsupported ==
  {Add(<<y, Mul(<<Num(-1), <<"Pow", x, Num(2)>>>>)>>),
   Add(<<<<"Derivative", x, "y", 1>>, x>>),
   Add(<<<<"Derivative", x, "t", 2>>, x>>),
   Add(<<y, <<"Function", "exp", x>>>>)}

SourceExprs ==
  Products \cup Equations \cup Unsupported
    \cup {x, t, a, Num(3), <<"Derivative", x, "t", 1>>, <<"sin", x>>, <<"cos", x>>}

\* trig functions whose argument holds a trig function
NestedTrig ==
  {Add(<<y, Mul(<<Num(-1), <<"sin", <<"cos", x>>>>>>)>>),
   Add(<<y, Mul(<<Num(-1), <<"cos", <<"sin", x>>>>>>)>>),
   Add(<<y, Mul(<<Num(-1), <<"sin", Mul(<<x, <<"cos", z>>>>)>>>>)>>)}

ConcreteKeys == {KPy(n) : n \in 0..MaxOrder}
Keys == ConcreteKeys \cup {KIdx(0), KIdx(1), Slice(KInt(0), KIdx(0)), Slice(KInt(1), KIdx(0))}

\* convolution trees over coefficient ranges
Range(s) == DT(s, Slice(KInt(0), KIdx(0)))
Vab == <<"dConv_v", <<Range(y), Range(z)>>>>
ConvArgs ==
  {Range(x), Range(w), Vab,
   <<"dConv_v", <<Range(x), Vab>>>>,
   Add(<<Range(w), Vab>>), Add(<<Range(x), Range(w)>>),
   Mul(<<Num(-1), Vab>>), Mul(<<Num(2), Range(w)>>), Mul(<<DT(w, KPy(0)), Vab>>)}
ConvTrees ==
  {<<f, <<p, q>>>> : f \in {"dConv_s", "dConv_v"}, p \in ConvArgs, q \in ConvArgs}
    \cup {<<f, <<Range(x), p, Range(w)>>>> : f \in {"dConv_s", "dConv_v"}, p \in ConvArgs}
    \cup {<<"dConv_s", <<Range(x), Range(w), Vab, Range(x)>>>>}

\* orders and range bounds a caller may hand over: native and library
\* integers, negative ones among them, Index expressions, and an expression
\* over a plain Symbol
Bounds ==
  {KPy(n) : n \in -1..2} \cup {KInt(-1), KInt(0), KInt(2), KIdx(0), KIdx(1), KSym(0), KSym(1)}

\* one expression for each class _dtify dispatches on
OrderExprs ==
  {x, t, Add(<<x, y>>), Mul(<<x, y>>), <<"sin", x>>, <<"cos", x>>,
   <<"Derivative", x, "t", 1>>, Num(3), a}

\* expressions that already hold a coefficient
Transformed ==
  {DT(x, KPy(0)), Add(<<y, DT(x, KPy(0))>>), Mul(<<z, DT(x, KPy(0))>>),
   Add(<<DT(x, KIdx(0)), <<"sin", y>>>>), Add(<<DT(x, KPy(0)), <<"Pow", y, Num(2)>>>>)}

\* the probes of extraction: the rows [s[0]] and [s[0], s[k]] of a variable s
Probe(s_, rows) ==
  <<"Matrix", IF rows = 1 THEN <<DT(s_, KPy(0))>> ELSE <<DT(s_, KPy(0)), DT(s_, KIdx(0))>>>>
Probes ==
  {<<Probe(x, m), Probe(y, n)>> : m \in 1..2, n \in 1..2}
    \cup {<<Probe(x, m), Probe(y, n), Probe(z, o)>> : m \in 1..2, n \in 1..2, o \in 1..2}

\* concrete ranges k0:k1 and the expressions transformed over them
Ranges ==
  {Slice(KPy(p[1]), KPy(p[2])) :
     p \in {p \in (0..MaxOrder) \X (0..MaxOrder) : p[1] <= p[2]}}
RangeExprs == {Mul(<<x, y>>), <<"sin", x>>, <<"cos", x>>}

\* convolution nodes over ranges and what they are multiplied by: a native
\* number (flatten), a library number, a coefficient, and the mask
\* 1 - dDelta(0:k) of the sine and cosine range rules
Mask == Add(<<Num(1), Mul(<<Num(-1), dDelta(Slice(KPy(0), KIdx(0)))>>)>>)
FlatNodes ==
  {<<f, as>> : f \in {"dConv_s", "dConv_v"},
               as \in {<<Range(x), Range(y)>>, <<Range(x), Range(y), Range(z)>>}}
Multiplications ==
  {<<"mul", "left", n, s_, TRUE>> : n \in FlatNodes, s_ \in {Num(-1), Num(2)}}
    \cup {<<"mul", "left", n, s_, FALSE>> : n \in FlatNodes, s_ \in {Num(2), DT(w, KIdx(0))}}
    \cup {<<"mul", "right", n, s_, FALSE>> : n \in FlatNodes, s_ \in {Num(2), DT(w, KIdx(0))}}
    \cup {<<"mul", "right", n, Mask, FALSE>> : n \in {n \in FlatNodes : Tag(n) = "dConv_v"}}

\* expressions handed to pre_lambdify: transforms of a product and of the
\* trig rules, and convolutions of ranges and of weighted ranges of one
\* variable whose ends differ by one, in both orders
Lin(e) == Mul(<<DT(y, Slice(KPy(0), e)), dLinspace(KPy(0), e)>>)
Lambdified ==
  {_dtify(p[1], p[2]) :
     p \in {<<Mul(<<x, y>>), KIdx(0)>>, <<Mul(<<x, y>>), KPy(2)>>,
            <<Add(<<phi(x), Mul(<<Num(-1), <<"sin", x>>>>)>>), KIdx(0)>>,
            <<Add(<<z, Mul(<<Num(-1), x, y>>)>>), KIdx(0)>>}}
    \cup {<<"dConv_s", <<DT(x, Slice(KPy(0), p)), DT(x, Slice(KPy(0), q))>>>> :
            p \in {KIdx(0), KIdx(1), KPy(1), KPy(2)}, q \in {KIdx(0), KIdx(1), KPy(1), KPy(2)}}
    \cup {<<"dConv_s", <<Lin(p), Lin(q)>>>> : p \in {KIdx(0), KIdx(1)}, q \in {KIdx(0), KIdx(1)}}

Inputs ==
  {<<"src", e, k>> : e \in SourceExprs, k \in Keys}
    \cup {<<"lam", e>> : e \in Lambdified}
    \cup Multiplications
    \cup {<<"range", e, k>> : e \in RangeExprs, k \in Ranges}
    \cup {<<"nest", e, k>> : e \in NestedTrig, k \in {KPy(1), KPy(2), KIdx(0), KIdx(1)}}
    \cup {<<"tree", T>> : T \in ConvTrees}
    \cup {<<"trig">>}
    \cup {<<"key", e, k>> : e \in OrderExprs, k \in Bounds}
    \cup {<<"dt", e, k>> : e \in Transformed, k \in {KPy(0), KPy(2), KIdx(0), KIdx(1)}}
    \cup {<<"new", "Slice", s, e>> : s \in Bounds, e \in Bounds}
    \cup {<<"new", "DT", x, k>> : k \in Bounds \cup {Slice(KPy(0), KIdx(0))}}
    \cup {<<"new", "dDelta", k>> : k \in Bounds \cup {Slice(KPy(0), KIdx(0))}}
    \cup {<<"new", "dConv_s", ps>> : ps \in Probes}

\* the coefficients given before any order is evaluated
Seed(in) ==
  IF in[1] = "trig" THEN (t :> [j \in 1..(MaxStep + 2) |-> RInt(IF j = 2 THEN 1 ELSE 0)])
                           @@ (phi(t) :> <<>>) @@ (psi(t) :> <<>>)
  ELSE (x :> <<RInt(1)>>)

Init ==
  /\ op = "none"
  /\ arg \in Inputs
  /\ ret = <<>>
  /\ hist = Seed(arg)
  /\ ic = [pc |-> "idle"]

\* _dtify(expr, k)
Transform ==
  /\ op = "none" /\ arg[1] = "src"
  /\ op' = "_dtify"
  /\ ret' = _dtify(arg[2], arg[3])
  /\ UNCHANGED <<arg, hist, ic>>

\* extract_unknown_term(E, k) of the expression E just transformed at k
Extract ==
  /\ op = "_dtify" /\ ~IsRaise(ret) /\ ~IsSlice(arg[3])
  /\ \E r \in extract_unknown_term(ret, Sympify(arg[3])) :
       /\ op' = "extract_unknown_term"
       /\ arg' = <<"E", ret, Sympify(arg[3])>>
       /\ ret' = r
  /\ UNCHANGED <<hist, ic>>

\* T.expand(func=True, mul=False)
Flatten ==
  /\ op = "none" /\ arg[1] = "tree"
  /\ op' = "expand"
  /\ ret' = expand(arg[2])
  /\ UNCHANGED <<arg, hist, ic>>

\* the same call on what the first one returned
FlattenAgain ==
  /\ op = "expand" /\ arg[1] = "tree" /\ ~IsRaise(ret)
  /\ op' = "expand"
  /\ arg' = <<"flat", ret>>
  /\ ret' = expand(ret)
  /\ UNCHANGED <<hist, ic>>

\* dtify(expr, k, etf, eut, constants); the constants list is empty or names
\* a variable, and for an expression that holds the coefficient x[0] it may
\* name that symbol
Compile ==
  /\ op = "none" /\ arg[1] \in {"src", "dt"}
  /\ \E etf \in BOOLEAN, eut \in BOOLEAN,
        constants \in {{}, {"y"}} \cup (IF arg[1] = "dt" THEN {{"x[0]"}} ELSE {}) :
       \E r \in dtify(arg[2], arg[3], etf, eut, constants) :
         /\ op' = "dtify"
         /\ arg' = <<arg[1], arg[2], arg[3], etf, eut, constants>>
         /\ ret' = r
  /\ UNCHANGED <<hist, ic>>

\* dtify(expr, k, etf=True, eut) of an expression with a trig function inside
\* a trig argument
CompileNested ==
  /\ op = "none" /\ arg[1] = "nest"
  /\ \E eut \in BOOLEAN : \E r \in dtify(arg[2], arg[3], TRUE, eut, {}) :
       /\ op' = "dtify_nested"
       /\ arg' = <<"nest", arg[2], arg[3], TRUE, eut, {}>>
       /\ ret' = r
  /\ UNCHANGED <<hist, ic>>

\* RHS_NUM_FUNC(kv) of a compiled equation whose LHS is the bare coefficient
\* s[k + c], for the order kv at which that coefficient is the next one
Step ==
  /\ op = "dtify" /\ IsEqn(ret) /\ EqEut(ret)
  /\ Tag(EqLHS(ret)) = "DT" /\ IsIdx(EqLHS(ret)[3])
  /\ EqLHS(ret)[2] \in DOMAIN hist
  /\ \E s \in {EqLHS(ret)[2]} : \E kv \in {Len(hist[s]) - EqLHS(ret)[3][2]} :
       /\ kv >= 0 /\ Len(hist[s]) <= MaxStep
       /\ hist' = [hist EXCEPT ![s] = Append(@, SVal(Eval(EqRHS(ret), kv, hist)))]
  /\ UNCHANGED <<op, arg, ret, ic>>

\* the sine and cosine rules at the next concrete order, evaluated over t and
\* the orders of phi_t, psi_t found so far
TrigStep ==
  /\ arg[1] = "trig" /\ Len(hist[phi(t)]) <= MaxStep
  /\ \E r \in {TrigRules(Len(hist[phi(t)]), hist)} :
       /\ op' = "trig"
       /\ ret' = <<r[1], r[2]>>
       /\ hist' = [hist EXCEPT ![phi(t)] = Append(@, r[3]),
                               ![psi(t)] = Append(@, r[4])]
  /\ UNCHANGED <<arg, ic>>

\* _dtify(expr, k) at an order k as the caller hands it over
TransformAt ==
  /\ op = "none" /\ arg[1] = "key"
  /\ op' = "_dtify_at"
  /\ ret' = _dtify(arg[2], arg[3])
  /\ UNCHANGED <<arg, hist, ic>>

\* a constructor call by the caller
Construct ==
  /\ op = "none" /\ arg[1] = "new"
  /\ op' = "new"
  /\ ret' = Call("new", <<arg[2], SubSeq(arg, 3, Len(arg))>>)
  /\ UNCHANGED <<arg, hist, ic>>

\* the equation object after a call of extract_unknown_terms: a call that
\* raises has assigned nothing
ObjectAfter == IF IsEqn(ret) THEN ret ELSE arg[2]

\* q.extract_unknown_terms() on an equation q that dtify returned, and again
\* on the same object: ret is the equation after the call or the error it
\* raised, arg holds the equation before the call and the number of the call
ExtractLater ==
  /\ \/ op = "dtify" /\ IsEqn(ret)
     \/ op = "extract_unknown_terms" /\ arg[3] < MaxCalls
  /\ \E q \in {ObjectAfter} : \E r \in extract_unknown_terms(q) :
       /\ op' = "extract_unknown_terms"
       /\ arg' = <<"eqn", q, IF op = "dtify" THEN 1 ELSE arg[3] + 1>>
       /\ ret' = r
  /\ UNCHANGED <<hist, ic>>

\* _dtify(expr, Slice(k0, k1)) over a concrete range
TransformRange ==
  /\ op = "none" /\ arg[1] = "range"
  /\ op' = "_dtify_range"
  /\ ret' = _dtify(arg[2], arg[3])
  /\ UNCHANGED <<arg, hist, ic>>

\* node * s (__mul__) and s * node (__rmul__ when s is a native number, the
\* left operand's own __mul__ otherwise)
Multiply ==
  /\ op = "none" /\ arg[1] = "mul"
  /\ op' = "mul"
  /\ ret' = Call("__mul__", IF arg[2] = "right" THEN <<arg[3], arg[4], FALSE>>
                             ELSE <<arg[4], arg[3], arg[5]>>)
  /\ UNCHANGED <<arg, hist, ic>>

\* pre_lambdify(expr)
PreLambdify ==
  /\ op = "none" /\ arg[1] = "lam"
  /\ \E r \in pre_lambdify(arg[2]) :
       /\ op' = "pre_lambdify"
       /\ ret' = r
  /\ UNCHANGED <<arg, hist, ic>>

Next ==
  \/ Transform
  \/ Extract
  \/ Flatten
  \/ FlattenAgain
  \/ Compile
  \/ Step
  \/ TrigStep
  \/ TransformAt
  \/ Construct
  \/ ExtractLater
  \/ TransformRange
  \/ Multiply
  \/ PreLambdify
  \/ CompileNested

Spec == Init /\ [][Next]_vars

(***************************************************************************)
(* DaeIc(dae, y0, t0, rtol) of solvers/daesolver/daeic.py.  The callbacks  *)
(* dae.F, dae.J and the linear solver are the environment: a residual is   *)
(* the pair <<norm(F[AlgEqn]), norm(F)>> in units of 1e-6, a Newton        *)
(* correction is a vector over the algebraic variables that is not zero    *)
(* where the algebraic residual is not zero.  Vector entries are counted   *)
(* in eighths, so that the trial steps lam * dY are exact, and norms are   *)
(* compared by their squares.                                              *)
(***************************************************************************)
\* y0.shape[0]
Dim == 2
\* for n in range(15)
MaxIter == 15
\* for probe in range(3)
MaxProbe == 3
\* the 1e-6 of the first test, in units of 1e-6
Tol == 1
\* lam = 1, in eighths
One == 8

\* mass matrices with one entry in each row and column at most, as the set
\* of the places <<equation, variable>> of their non-zero entries
Masses == {{<<1, 1>>}, {<<2, 1>>}, {<<1, 2>>}, {<<1, 1>>, <<2, 2>>}}

AllVar(M_) == 1..Dim
\* np.setdiff1d(np.arange(y0.shape[0]), DiffVar)
AlgVar(M_) == (1..Dim) \ {p[2] : p \in M_}
\* np.setdiff1d(np.arange(y0.shape[0]), DiffEqn)
AlgEqn(M_) == (1..Dim) \ {p[1] : p \in M_}

\* the residuals dae.F may give: the norm of the algebraic part and of the whole
Residuals == {<<0, 3>>, <<1, 100>>, <<2, 2>>}
\* the residuals at y0: an algebraic part of 0, of 1e-6 and of 2e-6
InitialResiduals == {<<0, 0>>, <<1, 1>>, <<2, 2>>}
\* the entries solve may give for a residual that is not zero
Entries == {-8, 4}
Corrections(M_) == [AlgVar(M_) -> Entries]

\* norm(v[idx]) ** 2
RECURSIVE Norm2(_, _)
Norm2(v, idx) ==
  IF idx = {} THEN 0
  ELSE LET i == CHOOSE i \in idx : TRUE IN v[i] * v[i] + Norm2(v, idx \ {i})

Max2(m, n) == IF m >= n THEN m ELSE n

\* norm(Fnew[AlgEqn]) <= 1e-3 * rtol * norm(Fnew)
ResidualTest(Fnew, rtol) == 1000 * Fnew[1] <= rtol * Fnew[2]
\* resnew < 0.9 * res
Descent(resnew2, res2) == 100 * resnew2 < 81 * res2
\* resnew <= 1e-3 * rtol * Ynorm
CorrectionTest(resnew2, rtol, Ynorm2) == 1000000 * resnew2 <= rtol * rtol * Ynorm2

\* the calls DaeIc(dae, y0, t0, rtol): an empty algebraic part has norm 0
IcInputs ==
  {in \in [M : Masses, y0 : {<<0, 400>>, <<400, 0>>}, rtol : {1, 10},
            F0 : InitialResiduals] :
     AlgEqn(in.M) = {} => in.F0[1] = 0}

IcLocals ==
  [n |-> 0, probe |-> 0, lam |-> One, y |-> <<>>, ynew |-> <<>>, dY |-> <<>>,
   res |-> 0, resnew |-> 0, corr |-> <<>>, Fnew |-> <<0, 0>>, Ynorm |-> 0,
   out |-> "none", line |-> 0, val |-> <<>>]

IcInit ==
  /\ op = "DaeIc" /\ arg = <<>> /\ ret = <<>> /\ hist = <<>>
  /\ \E in \in IcInputs : ic = in @@ [pc |-> "start"] @@ IcLocals

\* lines 14-25: return y0 when the algebraic residual is within 1e-6
IcStart ==
  /\ ic.pc = "start"
  /\ ic' = IF ic.F0[1] <= Tol
             THEN [ic EXCEPT !.pc = "done", !.out = "return", !.line = 21, !.val = ic.y0]
             ELSE [ic EXCEPT !.pc = "for", !.y = ic.y0]
  /\ UNCHANGED <<op, arg, ret, hist>>

\* lines 26-33: the Newton correction at y; at y0 the solver gives it, later
\* it is the opposite of the correction computed at ynew in line 39
IcNewton ==
  /\ ic.pc = "for" /\ ic.n < MaxIter
  /\ \E dY \in IF ic.n = 0 THEN Corrections(ic.M)
                ELSE {[i \in AlgVar(ic.M) |-> 0 - ic.corr[i]]} :
       ic' = [ic EXCEPT !.pc = "probe", !.dY = dY, !.res = Norm2(dY, AlgVar(ic.M)),
                        !.lam = One, !.ynew = ic.y, !.probe = 0]
  /\ UNCHANGED <<op, arg, ret, hist>>

\* ynew[AlgVar] = y[AlgVar] + lam * dY
TrialStep(M_, y_, lam, dY) ==
  [i \in 1..Dim |-> IF i \in AlgVar(M_) THEN y_[i] + (lam * dY[i]) \div One ELSE y_[i]]

\* lines 35-43: one trial step of the line search
IcProbe ==
  /\ ic.pc = "probe" /\ ic.probe < MaxProbe
  /\ \E ynew \in {TrialStep(ic.M, ic.y, ic.lam, ic.dY)} :
     \E Fnew \in Residuals :
       IF ResidualTest(Fnew, ic.rtol)
         THEN ic' = [ic EXCEPT !.pc = "done", !.out = "return", !.line = 38, !.val = ynew,
                               !.ynew = ynew, !.Fnew = Fnew, !.probe = @ + 1]
         ELSE \E corr \in Corrections(ic.M) : \E resnew \in {Norm2(corr, AlgVar(ic.M))} :
                ic' = [ic EXCEPT !.ynew = ynew, !.Fnew = Fnew, !.corr = corr,
                         !.resnew = resnew, !.probe = @ + 1,
                         !.lam = IF Descent(resnew, ic.res) THEN @ ELSE @ \div 2,
                         !.pc = IF Descent(resnew, ic.res) \/ ic.probe + 1 = MaxProbe
                                  THEN "after" ELSE "probe"]
  /\ UNCHANGED <<op, arg, ret, hist>>

\* lines 44-49: np.spacing() without an argument is a TypeError
IcAfter ==
  /\ ic.pc = "after"
  /\ \E Ynorm \in {Max2(Norm2(ic.y, AlgVar(ic.M)), Norm2(ic.ynew, AlgVar(ic.M)))} :
       ic' = IF Ynorm = 0
               THEN [ic EXCEPT !.pc = "done", !.out = "TypeError", !.line = 46, !.Ynorm = Ynorm]
             ELSE IF CorrectionTest(ic.resnew, ic.rtol, Ynorm)
               THEN [ic EXCEPT !.pc = "done", !.out = "return", !.line = 49, !.val = ic.ynew,
                               !.y = ic.ynew, !.Ynorm = Ynorm]
             ELSE [ic EXCEPT !.pc = "for", !.n = @ + 1, !.y = ic.ynew, !.Ynorm = Ynorm]
  /\ UNCHANGED <<op, arg, ret, hist>>

\* line 52: raise ValueError("Need Better y0")
IcRaise ==
  /\ ic.pc = "for" /\ ic.n = MaxIter
  /\ ic' = [ic EXCEPT !.pc = "done", !.out = "ValueError", !.line = 52]
  /\ UNCHANGED <<op, arg, ret, hist>>

IcNext == IcStart \/ IcNewton \/ IcProbe \/ IcAfter \/ IcRaise

IcSpec == IcInit /\ [][IcNext]_vars

(***************************************************************************)
(* Properties.  Values are taken over the coefficient sequences Cf, which  *)
(* differ from symbol to symbol and from order to order.                   *)
(***************************************************************************)
Unknowns == <<x, y, z, w, t, a, phi(x), psi(x), phi(y), psi(y), phi(t), psi(t)>>
Cf ==
  [s \in {Unknowns[i] : i \in DOMAIN Unknowns} |->
     [j \in 1..(MaxOrder + 3) |->
        RInt((CHOOSE i \in DOMAIN Unknowns : Unknowns[i] = s) + j * j)]]

\* the values a symbolic order takes, from 2 on, where every rule has its
\* general form; a concrete order has one value
Orders(k) == IF KeyHasIndex(k) THEN 2..MaxOrder ELSE {0}

\* C1: when extract_unknown_term(E, k) returns (RHS, LHS) without dividing by
\* an order-dependent coefficient, RHS - LHS has the value of E over concrete
\* coefficient sequences, at every value of a symbolic order k
C1_ExtractBalance ==
  (op = "extract_unknown_term" /\ ~IsRaise(ret)
     /\ \A sep \in {Separate(arg[2], arg[3])} : OrderDependent(sep[3]) = {})
    => \A kv \in Orders(arg[3]) :
         Lift(RAdd, Eval(ret[3], kv, Cf), Eval(arg[2], kv, Cf)) = Eval(ret[2], kv, Cf)

\* sum over m = 0..k of p[m] * q[k - m]
Cauchy(p, q, k) == RSum([m \in 1..(k + 1) |-> RMul(Cf[p][m], Cf[q][k + 2 - m])], 1)

\* C2: the transform of x*y at a concrete order k is the product x[0]*y[0]
\* at k = 0 and the scalar convolution of x[0:k] and y[0:k] at k >= 1, and
\* its value is the Cauchy product sum over m = 0..k of x[m]*y[k-m]
C2_CauchyProduct ==
  (op = "_dtify" /\ arg[2] = Mul(<<x, y>>) /\ IsPy(arg[3]))
    => /\ ret = IF arg[3][2] = 0
                  THEN Mul(<<DT(x, KPy(0)), DT(y, KPy(0))>>)
                  ELSE <<"dConv_s", <<DT(x, Slice(KPy(0), arg[3])),
                                      DT(y, Slice(KPy(0), arg[3]))>>>>
       /\ Eval(ret, 0, Cf) = S(Cauchy(x, y, arg[3][2]))

C2_Witness ==
  /\ op = "_dtify" /\ arg[2] = Mul(<<x, y>>) /\ arg[3] = KPy(MaxOrder)
  /\ Tag(ret) = "dConv_s"

\* C3: the transform at k of a product with a Number or Constant operand c,
\* wherever c stands, has the value of c times the transform at k of the
\* product of the other operands
C3_ConstantFactor ==
  (op = "_dtify" /\ Tag(arg[2]) = "Mul" /\ FirstConst(arg[2][2], 1) > 0 /\ ~IsRaise(ret))
    => \A i \in {FirstConst(arg[2][2], 1)} :
         \A rest \in {_dtify(MkMul(SubSeq(arg[2][2], 1, i - 1)
                                     \o SubSeq(arg[2][2], i + 1, Len(arg[2][2]))), arg[3])} :
           \A kv \in Orders(arg[3]) :
             Eval(ret, kv, Cf) = Lift(RMul, Eval(arg[2][2][i], kv, Cf), Eval(rest, kv, Cf))

\* dx/dt + x, and the first Taylor coefficients of exp(-t)
DecayEq == Add(<<<<"Derivative", x, "t", 1>>, x>>)
DecayCoefficients == <<<<1, 1>>, <<-1, 1>>, <<1, 2>>, <<-1, 6>>, <<1, 24>>, <<-1, 120>>>>

\* C4: dx/dt + x compiled at the symbolic order k with unknown-term
\* extraction gives the governing order k+1, LHS x[k+1] and an RHS of value
\* -x[k]/(k+1); from x[0] = 1 the orders evaluated in turn are the
\* coefficients 1, -1, 1/2, -1/6, 1/24, -1/120
C4_Decay ==
  (op = "dtify" /\ arg[2] = DecayEq /\ arg[3] = KIdx(0) /\ arg[5])
    => /\ IsEqn(ret)
       /\ EqK(ret) = KIdx(1)
       /\ EqLHS(ret) = DT(x, KIdx(1))
       /\ \A kv \in 0..MaxOrder :
            Eval(EqRHS(ret), kv, Cf) = S(RMul(RNeg(Cf[x][kv + 1]), RInv(RInt(kv + 1))))
       /\ \A j \in 1..Len(hist[x]) :
            j <= Len(DecayCoefficients) => hist[x][j] = DecayCoefficients[j]

C4_Witness ==
  /\ op = "dtify" /\ arg[2] = DecayEq /\ arg[3] = KIdx(0) /\ arg[5]
  /\ Len(hist[x]) >= Len(DecayCoefficients)

\* the Taylor coefficients of sin(t) and cos(t)
SinCoefficients == <<<<0, 1>>, <<1, 1>>, <<0, 1>>, <<-1, 6>>, <<0, 1>>, <<1, 120>>>>
CosCoefficients == <<<<1, 1>>, <<0, 1>>, <<-1, 2>>, <<0, 1>>, <<1, 24>>, <<0, 1>>>>

\* sum over m = 0..n-1 of (n - m)/n * s[m] * t[n - m], over the orders found so far
WeightedSum(s, n) ==
  RSum([m \in 1..n |->
          RMul(RMul(RNorm(n - m + 1, n), hist[s][m]), hist[t][n - m + 2])], 1)

\* C5: with u = t (t[1] = 1, every other t[j] = 0) the sine and cosine rules
\* evaluated at the concrete orders 0, 1, 2, ... in turn are 0 and 1 at order
\* 0, psi[0]*t[1] and -phi[0]*t[1] at order 1 and the convolutions weighted
\* by (k-m)/k from order 2 on, and give phi[0..5] = 0, 1, 0, -1/6, 0, 1/120
\* and psi[0..5] = 1, 0, -1/2, 0, 1/24, 0
C5_TrigSeries ==
  arg[1] = "trig"
    => /\ \A j \in 1..Len(hist[phi(t)]) :
            /\ j <= Len(SinCoefficients)
                 => /\ hist[phi(t)][j] = SinCoefficients[j]
                    /\ hist[psi(t)][j] = CosCoefficients[j]
            /\ j >= 2
                 => /\ hist[phi(t)][j] = WeightedSum(psi(t), j - 1)
                    /\ hist[psi(t)][j] = RNeg(WeightedSum(phi(t), j - 1))
       /\ (op = "trig" /\ Len(hist[phi(t)]) = 1) => ret = <<Num(0), Num(1)>>
       /\ (op = "trig" /\ Len(hist[phi(t)]) = 2)
            => ret = <<DT(psi(t), KPy(0)), Neg(DT(phi(t), KPy(0)))>>
       /\ (op = "trig" /\ Len(hist[phi(t)]) >= 3)
            => Tag(ret[1]) = "dConv_s" /\ Has(ret[2], {"dConv_s"})

C5_Witness ==
  arg[1] = "trig" /\ op = "trig" /\ Len(hist[phi(t)]) >= Len(SinCoefficients)

\* the positions at which a convolution tree T has a vector convolution of
\* coefficient ranges as argument, every other argument being a range
NestedAt(T) ==
  {i \in 1..Len(T[2]) :
     /\ Tag(T[2][i]) = "dConv_v"
     /\ \A j \in 1..Len(T[2][i][2]) : Tag(T[2][i][2][j]) = "DT"
     /\ \A j \in 1..Len(T[2]) : j # i => Tag(T[2][j]) = "DT"}

\* C6: flattening a convolution over (a_1..a_n) whose argument at position i
\* is a vector convolution over (b_1..b_m) gives the convolution over
\* (a_1..a_{i-1}, b_1..b_m, a_{i+1}..a_n), at every position i
C6_SpliceInPlace ==
  (op = "expand" /\ arg[1] = "tree")
    => \A i \in NestedAt(arg[2]) :
         ret = <<Tag(arg[2]),
                 SubSeq(arg[2][2], 1, i - 1) \o arg[2][2][i][2]
                   \o SubSeq(arg[2][2], i + 1, Len(arg[2][2]))>>

\* C7: flattening the tree that flattening returned gives that same tree
C7_FlattenIdempotent ==
  (op = "expand" /\ arg[1] = "flat") => ret = arg[2]

C7_Witness ==
  /\ op = "expand" /\ arg[1] = "flat"
  /\ Tag(ret) = "Add" /\ Has(ret, {"dConv_s"}) /\ ~Has(ret, {"dConv_v"})

C9_DerivativeShift ==
  (op = "_dtify" /\ arg[2] = <<"Derivative", x, "t", 1>> /\ ~IsSlice(arg[3]))
    => /\ ret = MkMul(<<OrderVal(KeyAdd(Sympify(arg[3]), 1)), DT(x, KeyAdd(arg[3], 1))>>)
       /\ \A kv \in 0..MaxOrder :
            \A n \in {KeyVal(arg[3], kv)} :
              Eval(ret, kv, Cf) = S(RMul(RInt(n + 1), Cf[x][n + 2]))

C9_Witness ==
  /\ op = "_dtify" /\ arg[2] = <<"Derivative", x, "t", 1>> /\ arg[3] = KPy(MaxOrder)
  /\ ret = Mul(<<Num(MaxOrder + 1), DT(x, KPy(MaxOrder + 1))>>)

\* C10: compiling an expression with a power of a variable, a derivative
\* with respect to a variable other than t, a time derivative of order two
\* or another function node raises an error and returns no equation
C10_UnsupportedRejected ==
  (op = "dtify" /\ arg[2] \in Unsupported) => IsRaise(ret)

\* a concrete negative order or range bound
IsNegative(k) == IsInt(k) /\ k[2] < 0

\* C11: a negative concrete order or range bound, native or library Integer,
\* is rejected with an error by the Slice and DT constructors and by the
\* transform of a variable, of t, of a sum, a product, a sine and a cosine
C11_NegativeRejected ==
  /\ (op = "new" /\ arg[2] \in {"Slice", "DT"} /\ (IsNegative(arg[3]) \/ IsNegative(arg[4])))
       => IsRaise(ret)
  /\ (op = "_dtify_at" /\ IsNegative(arg[3])
        /\ arg[2] \in {x, t, Add(<<x, y>>), Mul(<<x, y>>), <<"sin", x>>, <<"cos", x>>})
       => IsRaise(ret)

\* an order expression with a free symbol that is not an Index
HasPlainSymbol(k) == Tag(k) = "sym"

\* C12: an order or range bound with a free symbol that is not an Index is
\* rejected with an error by the Slice constructor and by the transform of a
\* variable, of t, of a sum, a product, a sine, a cosine and a time derivative
C12_NonIndexRejected ==
  /\ (op = "new" /\ arg[2] = "Slice" /\ (HasPlainSymbol(arg[3]) \/ HasPlainSymbol(arg[4])))
       => IsRaise(ret)
  /\ (op = "_dtify_at" /\ HasPlainSymbol(arg[3])
        /\ arg[2] \in {x, t, Add(<<x, y>>), Mul(<<x, y>>), <<"sin", x>>, <<"cos", x>>,
                        <<"Derivative", x, "t", 1>>})
       => IsRaise(ret)

\* an order argument that is not concrete: an Index, an expression over
\* Index variables, or a range
IsSymbolicOrder(k) == IsIdx(k) \/ IsSlice(k)

\* C13: dDelta is 1 at the concrete order 0 and 0 at every other concrete
\* order, stays the unevaluated node dDelta(e) for every symbolic order e
\* (k, k + 1, a range) without raising, and so the transform of a number or
\* constant c at a symbolic order e is c*dDelta(e)
C13_DeltaLaw ==
  /\ (op = "new" /\ arg[2] = "dDelta" /\ IsInt(arg[3]))
       => ret = Num(IF arg[3][2] = 0 THEN 1 ELSE 0)
  /\ (op = "new" /\ arg[2] = "dDelta" /\ IsSymbolicOrder(arg[3]))
       => ret = <<"dDelta", arg[3]>>
  /\ (op \in {"_dtify", "_dtify_at"} /\ arg[2] \in {Num(3), a} /\ IsSymbolicOrder(arg[3]))
       => ret = MkMul(<<arg[2], <<"dDelta", arg[3]>>>>)

\* C14: dtify of an expression that already holds a coefficient raises the
\* TypeError of its own check, whatever k, etf, eut and constants are, and
\* returns no equation
C14_AlreadyTransformed ==
  (op = "dtify" /\ arg[1] = "dt") => ret = Raise("TypeError")

\* the terms of an expression multiplied out, each as its sequence of factors
RECURSIVE Monomials(_)
RECURSIVE ProductMonomials(_, _)
Monomials(e) ==
  CASE Tag(e) = "Add" -> UNION {Monomials(e[2][i]) : i \in 1..Len(e[2])}
    [] Tag(e) = "Mul" -> ProductMonomials(e[2], 1)
    [] OTHER -> {<<e>>}
ProductMonomials(fs, i) ==
  IF i > Len(fs) THEN {<<>>}
  ELSE {m \o r : m \in Monomials(fs[i]), r \in ProductMonomials(fs, i + 1)}

\* a term linear in the order-k coefficients: one factor is a coefficient at
\* the order k, every other factor is a number, a constant or a coefficient
\* at the order 0
LinearTerm(fs, k) ==
  /\ Cardinality({i \in 1..Len(fs) : Tag(fs[i]) = "DT" /\ KeyEq(fs[i][3], k)}) = 1
  /\ \A i \in 1..Len(fs) :
       \/ Tag(fs[i]) \in {"Number", "Constant"}
       \/ Tag(fs[i]) = "DT" /\ (KeyEq(fs[i][3], k) \/ IsZeroKey(fs[i][3]))

\* C15: whenever extract_unknown_term(E, k) returns, at a symbolic or a
\* concrete order k, LHS multiplied out is a sum of terms each linear in the
\* order-k coefficients: no range, no convolution node, no auxiliary symbol
\* and no coefficient at an order other than 0 and k is left in it
C15_LinearLHS ==
  (op = "extract_unknown_term" /\ ~IsRaise(ret))
    => \/ ret[3] = Num(0)
       \/ \A fs \in Monomials(ret[3]) : LinearTerm(fs, arg[3])

\* the equations a call of dtify returned
Eqns(r) ==
  IF IsEqn(r) THEN {r}
  ELSE IF Tag(r) = "list" THEN {r[2][i] : i \in 1..Len(r[2])} ELSE {}

\* the order a coefficient stands for (the end of its range) and the number
\* an order is with k = 0
EndOf(d) == IF IsSlice(d[3]) THEN d[3][3] ELSE d[3]
AtZero(key) == IF Tag(key) = "SliceSum" THEN key[3] ELSE key[2]

\* C16: the governing order k of a compiled equation is the order (for a
\* range its end) of one of the coefficients of its expression, no other
\* coefficient has an order that is larger with every Index set to 0, and
\* when a single coefficient has the largest order k is that order whatever
\* the enumeration of the symbols; dx/dt + x compiled at k has k + 1, compiled
\* at a concrete n it has n + 1
C16_GoverningOrder ==
  op = "dtify"
    => \A q \in Eqns(ret) : \A ds \in {DTSymbols(EqExpr(q))} :
         /\ \E d \in ds : EqK(q) = EndOf(d)
         /\ \A d \in ds : AtZero(EndOf(d)) <= AtZero(EqK(q))
         /\ \A d \in ds :
              (\A o \in ds \ {d} : AtZero(EndOf(o)) < AtZero(EndOf(d))) => EqK(q) = EndOf(d)
         /\ (arg[2] = DecayEq /\ arg[3] = KIdx(0)) => EqK(q) = KIdx(1)
         /\ (arg[2] = DecayEq /\ IsPy(arg[3])) => EqK(q) = KInt(arg[3][2] + 1)

C16_Witness ==
  /\ op = "dtify" /\ arg[2] = DecayEq /\ arg[3] = KPy(2) /\ IsEqn(ret)
  /\ DTSymbols(EqExpr(ret)) = {DT(x, KPy(2)), DT(x, KPy(3))}
  /\ EqK(ret) = KInt(3)

\* the equations of a returned list that define the auxiliary variable v
Defining(r, v) == {i \in 2..Len(r[2]) : EqInt(r[2][i]) = v}

UnknownsOf(q) == {d \in DTSymbols(EqLHS(q)) : KeyEq(d[3], EqK(q))}

\* C18: in every state of a compiled equation, as constructed with eut true
\* or false and after a later extract_unknown_terms, COEFF has one entry for
\* each variable whose order-k coefficient occurs in LHS and no other, and
\* the entry is the coefficient of that order-k coefficient in LHS
C18_CoeffMap ==
  (op \in {"dtify", "extract_unknown_terms"} /\ arg[1] \in {"src", "eqn"})
    => \A q \in Eqns(ret) : \A us \in {UnknownsOf(q)} :
         /\ DOMAIN EqCOEFF(q) = {d[2] : d \in us}
         /\ \A d \in us : EqCOEFF(q)[d[2]] = Coeff(EqLHS(q), d)

\* the product of the order-0 entries of the probes ps other than the i-th
RECURSIVE ProductOfOthers(_, _, _)
ProductOfOthers(ps, i, j) ==
  IF j > Len(ps) THEN RInt(1)
  ELSE RMul(IF j = i THEN RInt(1) ELSE Cf[ps[j][2][1][2]][1], ProductOfOthers(ps, i, j + 1))

\* C19: dConv_s over probes [a0] and [a0, ak] is the product of the order-0
\* entries when every probe has one row, and otherwise the sum over the
\* two-row probes i of ak_i times the product of the a0_j, j # i, whichever
\* positions hold the one-row probes; the auxiliary symbol x_ is not in it
C19_ProbeProduct ==
  (op = "new" /\ arg[2] = "dConv_s")
    => \A ps \in {arg[3]} : \A two \in {{i \in 1..Len(ps) : Len(ps[i][2]) = 2}} :
         /\ x_ \notin FreeSymbols(ret)
         /\ \A kv \in 2..MaxOrder :
              Eval(ret, kv, Cf) =
                S(IF two = {} THEN ProductOfOthers(ps, 0, 1)
                  ELSE RSum([i \in 1..Len(ps) |->
                               IF i \in two
                                 THEN RMul(Cf[ps[i][2][2][2]][kv + 1], ProductOfOthers(ps, i, 1))
                               ELSE RInt(0)], 1))

\* the ranges of the coefficients of an expression
SlicesIn(e) == {d[3] : d \in {d \in DTSymbols(e) : IsSlice(d[3])}}

\* concrete bounds are not negative, and two concrete bounds are in order
Ordered(sl) ==
  /\ IsInt(sl[2]) => sl[2][2] >= 0
  /\ IsInt(sl[3]) => sl[3][2] >= 0
  /\ (IsInt(sl[2]) /\ IsInt(sl[3])) => sl[2][2] <= sl[3][2]

\* C20: every Slice that is constructed has concrete bounds with
\* 0 <= start <= end: the ones a caller constructs, the ones in the transform
\* of a product, sine or cosine at a concrete order k >= 1, and the ones
\* extraction leaves when it narrows a window at a concrete order k >= 1
C20_RangeOrdered ==
  /\ (op = "new" /\ arg[2] = "Slice" /\ ~IsRaise(ret)) => Ordered(ret)
  /\ (op = "_dtify" /\ IsPy(arg[3]) /\ ~IsRaise(ret))
       => (arg[3][2] >= 1 => \A sl \in SlicesIn(ret) : Ordered(sl))
  /\ (op = "extract_unknown_term" /\ IsInt(arg[3]) /\ ~IsRaise(ret))
       => (arg[3][2] >= 1 => \A sl \in SlicesIn(ret[2]) \cup SlicesIn(ret[3]) : Ordered(sl))

C22_RangeTrig ==
  (op = "_dtify_range" /\ Tag(arg[2]) \in {"sin", "cos"})
    => \A k0 \in {arg[3][2][2]} : \A k1 \in {arg[3][3][2]} : \A v \in {Eval(ret, 0, Cf)} :
         /\ IsVec(v) /\ Len(v[2]) = k1 - k0 + 1
         /\ \A j \in 0..(k1 - k0) :
              \A sc \in {_dtify(arg[2], KPy(k0 + j))} : v[2][j + 1] = SVal(Eval(sc, 0, Cf))
         /\ k0 = 0
              => v[2][1] = Cf[IF Tag(arg[2]) = "sin" THEN phi(x) ELSE psi(x)][1]

\* the convolution nodes of a tree
ConvNodes(e) == search_for_func(e, "dConv_s") \cup search_for_func(e, "dConv_v")

\* the terms of a sum, whose order carries no meaning
Terms(e) == {AddArgs(e)[n] : n \in 1..Len(AddArgs(e))}

\* C23: flattening a convolution tree whose argument at a position i is a
\* sum s1 + s2 returns the sum of the flattened convolution with s1 at i and
\* the flattened convolution with s2 at i, and no convolution node of what
\* it returns has a sum as an argument
C23_SumDistributed ==
  (op = "expand" /\ arg[1] = "tree" /\ ~IsRaise(ret))
    => /\ \A i \in {i \in 1..Len(arg[2][2]) : Tag(arg[2][2][i]) = "Add"} :
            \A s1 \in {arg[2][2][i][2][1]} : \A s2 \in {MkAdd(Tail(arg[2][2][i][2]))} :
              Terms(ret) = Terms(MkAdd(<<expand(<<Tag(arg[2]), Replace(arg[2][2], i, s1)>>),
                                         expand(<<Tag(arg[2]), Replace(arg[2][2], i, s2)>>)>>))
       /\ (\E i \in 1..Len(arg[2][2]) : Tag(arg[2][2][i]) = "Add")
            => \A c \in ConvNodes(ret) : \A j \in 1..Len(c[2]) : Tag(c[2][j]) # "Add"

\* C24: node * s is the node of the same class with s multiplied into its
\* last argument, s * node the one with s multiplied into its first
\* argument, the other arguments being unchanged, and the value of the
\* result is s times the value of the node, for the numbers flatten
\* multiplies in and for the mask the sine and cosine range rules multiply in
C24_ScalarFolded ==
  op = "mul"
    => \A n \in {arg[3]} : \A s_ \in {arg[4]} :
         /\ arg[2] = "right"
              => ret = <<Tag(n), SubSeq(n[2], 1, Len(n[2]) - 1)
                                   \o <<MkMul(<<n[2][Len(n[2])], s_>>)>>>>
         /\ arg[2] = "left"
              => ret = <<Tag(n), <<MkMul(<<s_, n[2][1]>>)>> \o Tail(n[2])>>
         /\ \A kv \in 2..MaxOrder :
              Eval(ret, kv, Cf) = Lift(RMul, Eval(s_, kv, Cf), Eval(n, kv, Cf))

\* C25: when LHS before the last step of extraction holds order-k
\* coefficients and the coefficient c of one of them depends on the order
\* variable, the returned RHS and LHS are the RHS and LHS before the step
\* divided by one and the same c, every order-k coefficient of LHS before the
\* step is a symbol of the returned equation, and no coefficient of an
\* unknown in the returned LHS depends on the order variable
C25_Normalised ==
  ((op = "dtify" /\ arg[1] = "src" /\ arg[5]) \/ op = "extract_unknown_terms")
    => \A q \in Eqns(ret) :
         \A sep \in {Separate(EqExpr(q), EqK(q))} :
           (~IsRaise(sep) /\ OrderDependent(sep[3]) # {})
             => /\ \E first \in OrderDependent(sep[3]) : \E c \in {Coeff(sep[3], first)} :
                     \A kv \in Orders(EqK(q)) :
                       /\ Lift(RMul, Eval(c, kv, Cf), Eval(EqRHS(q), kv, Cf)) = Eval(sep[2], kv, Cf)
                       /\ Lift(RMul, Eval(c, kv, Cf), Eval(EqLHS(q), kv, Cf)) = Eval(sep[3], kv, Cf)
                /\ {d \in DTSymbols(sep[3]) : KeyEq(d[3], EqK(q))}
                     \subseteq DTSymbols(EqLHS(q)) \cup DTSymbols(EqRHS(q))
                /\ OrderDependent(EqLHS(q)) = {}

\* the expression with the end of every range and of every dLinspace raised
\* by one and nothing else changed
RECURSIVE Extended(_)
Extended(e) ==
  CASE Tag(e) = "DT" /\ IsSlice(e[3])
         -> <<"DT", e[2], <<"Slice", e[3][2], KeyAdd(e[3][3], 1)>>>>
    [] Tag(e) = "dLinspace" -> <<"dLinspace", e[2], KeyAdd(e[3], 1)>>
    [] Tag(e) \in {"Add", "Mul", "dConv_s", "dConv_v"}
         -> <<Tag(e), [i \in 1..Len(e[2]) |-> Extended(e[2][i])]>>
    [] Tag(e) = "Inv" -> <<"Inv", Extended(e[2])>>
    [] OTHER -> e

\* C26: pre_lambdify returns its argument with every range x[a:b] replaced
\* by x[a:b+1] and every dLinspace(a, b) by dLinspace(a, b+1), each end
\* raised by exactly one also when two ranges of one variable or two
\* dLinspace nodes have ends that differ by one, and nothing else changed
C26_EndsRaisedByOne ==
  op = "pre_lambdify" => ret = Extended(arg[2])

\* C27: a call of extract_unknown_terms on an equation constructed with eut
\* true raises the error and leaves the equation as it was; on an equation
\* constructed with eut false the first call replaces RHS and LHS by the
\* result of the extraction, and every later call raises the error
C27_ExtractedOnce ==
  op = "extract_unknown_terms"
    => \A q \in {arg[2]} :
         /\ EqEut(q) => (ret = Raise("ValueError") /\ ObjectAfter = q)
         /\ (~EqEut(q) /\ arg[3] = 1)
              => \E r \in extract_unknown_term(EqExpr(q), EqK(q)) :
                   IF IsRaise(r) THEN ret = r
                   ELSE IsEqn(ret) /\ EqRHS(ret) = r[2] /\ EqLHS(ret) = r[3]
         /\ (~EqEut(q) /\ arg[3] > 1) => ret = Raise("ValueError")

\* C28: flattening a finite convolution tree returns, whatever its arguments
\* are: sums, numeric multiples of a vector convolution, vector convolutions
\* at the first, a middle or the last position, and the product of a
\* coefficient with a vector convolution; the recursion never runs on
\* the node it started from
C28_FlattenTerminates ==
  (op = "expand" /\ arg[1] = "tree") => ret # Raise("RecursionError")

\* the auxiliary trig variables whose coefficients occur in the equation q
AuxOf(q) == {d[2] : d \in {d \in DTSymbols(EqExpr(q)) : Tag(d[2]) \in {"phi", "psi"}}}

\* C29: in a list returned by dtify with etf set, every auxiliary variable
\* phi_u or psi_u whose coefficient occurs in one of the returned equations
\* has a defining equation in the list, also when a trig argument holds a
\* trig function
C29_AuxiliariesDefined ==
  (op \in {"dtify", "dtify_nested"} /\ arg[1] \in {"src", "nest"} /\ Tag(ret) = "list")
    => \A i \in 1..Len(ret[2]) : \A v \in AuxOf(ret[2][i]) : Defining(ret, v) # {}

IcDone == ic.pc = "done"

\* C30: DaeIc ends, after 15 Newton iterations of 3 trial steps with the
\* factors 1, 1/2, 1/4 at most, in one of three ways: it returns y0 without
\* an iteration when the algebraic residual at y0 is within 1e-6, it returns
\* a vector for which one of the two convergence tests was met, or it raises
\* ValueError after 15 iterations in which none was met; a returned vector
\* has the entries of y0 at the differential variables
C30_DaeIcOutcomes ==
  /\ ic.n <= MaxIter /\ ic.probe <= MaxProbe
  /\ ic.pc = "probe" => ic.lam * 2 ^ ic.probe = One
  /\ IcDone \/ ENABLED IcNext
  /\ IcDone =>
       /\ \/ /\ ic.out = "return" /\ ic.line = 21
             /\ ic.F0[1] <= Tol /\ ic.val = ic.y0 /\ ic.n = 0 /\ ic.probe = 0 /\ ic.y = <<>>
          \/ /\ ic.out = "return" /\ ic.line = 38
             /\ ic.F0[1] > Tol /\ ic.n < MaxIter /\ ic.probe \in 1..MaxProbe
             /\ ResidualTest(ic.Fnew, ic.rtol)
          \/ /\ ic.out = "return" /\ ic.line = 49
             /\ ic.F0[1] > Tol /\ ic.n < MaxIter /\ ic.probe \in 1..MaxProbe
             /\ CorrectionTest(ic.resnew, ic.rtol, ic.Ynorm)
          \/ /\ ic.out = "ValueError"
             /\ ic.F0[1] > Tol /\ ic.n = MaxIter
             /\ ~ResidualTest(ic.Fnew, ic.rtol)
             /\ ~CorrectionTest(ic.resnew, ic.rtol, ic.Ynorm)
       /\ ic.out = "return" =>
            \A i \in 1..Dim : (\E p \in ic.M : p[2] = i) => ic.val[i] = ic.y0[i]

\* a vector returned by the second test in a later iteration, after a line
\* search that halved the step twice
C30_Witness ==
  /\ IcDone /\ ic.out = "return" /\ ic.line = 49
  /\ ic.n >= 1 /\ ic.probe = MaxProbe /\ ic.lam * 4 = One
  /\ ic.val # ic.y0

============================================================================
